---- MODULE Spec2Model ----
(***************************************************************************)
(* Structural analysis of ROOP documents: the language server              *)
(* (src/src/server.ts) and the client fallback features                    *)
(* (src/src/extension.ts).                                                 *)
(*                                                                         *)
(* Text representation.  A line is a sequence of lexemes, each a string:   *)
(* a single blank " ", a maximal run of word characters ("start", "x"),    *)
(* a quoted string literal ("\"A\""), the colon ":" or the comment marker  *)
(* "//".  The text of a line is the concatenation of its lexemes, so its   *)
(* length in characters is the sum of the lexemes' lengths.  Words are     *)
(* maximal, hence a regular expression's \b after a keyword holds exactly  *)
(* when the keyword is a whole lexeme.  A document is a non-empty sequence *)
(* of lines (TextDocument.lineCount >= 1); line numbers in diagnostics,    *)
(* symbols and folds are 0-based as in the code.                           *)
(***************************************************************************)
EXTENDS Integers, Sequences, FiniteSets, TLC

-----------------------------------------------------------------------------
(* Bounds *)

MaxLines == 3
MaxNotifications == 2
MaxColumn == 12

-----------------------------------------------------------------------------
(* Lexemes *)

\* string literals; the last one has "//" inside the quotes
StringLits == {"\"A\"", "\"B\"", "\"A//B\""}
NonWords == {" ", ":", "//"} \cup StringLits

IsSpace(t) == t = " "
\* \w+ : a maximal run of [A-Za-z0-9_]
IsWordTok(t) == t \notin NonWords
\* [A-Za-z][A-Za-z\-]* followed by \b : a word without digits or underscore
NumberToks == {"3"}
IsAlphaTok(t) == IsWordTok(t) /\ t \notin NumberToks

RECURSIVE TextLength(_)
TextLength(s) == IF s = <<>> THEN 0 ELSE Len(Head(s)) + TextLength(Tail(s))

RECURSIVE TrimStart(_)
TrimStart(s) == IF s # <<>> /\ IsSpace(Head(s)) THEN TrimStart(Tail(s)) ELSE s

RECURSIVE TrimEnd(_)
TrimEnd(s) ==
  IF s # <<>> /\ IsSpace(s[Len(s)]) THEN TrimEnd(SubSeq(s, 1, Len(s) - 1)) ELSE s

Trim(s) == TrimEnd(TrimStart(s))

\* index of the first lexeme at or after i that is not a blank (Len(s)+1 if none)
RECURSIVE SkipSpaces(_, _)
SkipSpaces(s, i) ==
  IF i <= Len(s) /\ IsSpace(s[i]) THEN SkipSpaces(s, i + 1) ELSE i

\* " ".repeat(n)
RECURSIVE Spaces(_)
Spaces(n) == IF n <= 0 THEN <<>> ELSE <<" ">> \o Spaces(n - 1)

\* ^a\s+b\b  on s; the index of b, or 0 when there is no match
TwoWordAt(s, a, b) ==
  IF Len(s) >= 3 /\ s[1] = a /\ IsSpace(s[2])
  THEN LET j == SkipSpaces(s, 2) IN IF j <= Len(s) /\ s[j] = b THEN j ELSE 0
  ELSE 0

EndsWithColon(s) == s # <<>> /\ s[Len(s)] = ":"

\* the lexemes of a line that end at or before character c, and those that
\* begin at or after it
LexemesBefore(line, c) ==
  SelectSeq([k \in 1..Len(line) |-> IF TextLength(SubSeq(line, 1, k)) <= c
                                    THEN <<line[k]>> ELSE <<>>],
            LAMBDA x : x # <<>>)

LexemesFrom(line, c) ==
  SelectSeq([k \in 1..Len(line) |-> IF TextLength(SubSeq(line, 1, k - 1)) >= c
                                    THEN <<line[k]>> ELSE <<>>],
            LAMBDA x : x # <<>>)

Flatten(parts) ==
  LET f[k \in 0..Len(parts)] == IF k = 0 THEN <<>> ELSE f[k - 1] \o parts[k]
  IN f[Len(parts)]

\* Math.max, Math.min
Max(a, b) == IF a >= b THEN a ELSE b
Min(a, b) == IF a <= b THEN a ELSE b

-----------------------------------------------------------------------------
(* server.ts, section 5: line predicates *)

\* /^on\s+\w+$/
OnWordOnly(t) ==
  /\ Len(t) >= 3 /\ t[1] = "on" /\ IsSpace(t[2])
  /\ SkipSpaces(t, 2) = Len(t) /\ IsWordTok(t[Len(t)])

\* /^on\s+\w+\s*:$/
OnWordColon(t) ==
  /\ Len(t) >= 4 /\ t[1] = "on" /\ IsSpace(t[2]) /\ t[Len(t)] = ":"
  /\ LET j == SkipSpaces(t, 2)
     IN j < Len(t) /\ IsWordTok(t[j]) /\ SkipSpaces(t, j + 1) = Len(t)

\* /^kw\s*:$/
WordColonOnly(t, kw) ==
  Len(t) >= 2 /\ t[1] = kw /\ t[Len(t)] = ":" /\ SkipSpaces(t, 2) = Len(t)

endsWithColonCandidate(line) ==
  LET trimmed == Trim(line) IN
  IF trimmed = <<>> \/ trimmed[1] = "//" THEN FALSE
  ELSE \/ trimmed[1] \in {"when", "if", "elseif", "else", "repeat", "while",
                          "for", "parallel"}
       \/ OnWordOnly(trimmed)
       \/ TwoWordAt(trimmed, "template", "task") > 0

isStartTask(line) == TwoWordAt(TrimStart(line), "start", "task") > 0
isEndTask(line) == TwoWordAt(TrimStart(line), "end", "task") > 0

\* the header pattern shared by folding (server.ts:1113) and formatting (:1171)
IsBlockStarter(t) ==
  \/ Len(t) >= 2 /\ t[1] \in {"when", "if", "elseif", "repeat", "while", "for"}
       /\ t[Len(t)] = ":"
  \/ OnWordColon(t)
  \/ WordColonOnly(t, "else")
  \/ WordColonOnly(t, "parallel")
  \/ LET j == TwoWordAt(t, "template", "task") IN j > 0 /\ j < Len(t) /\ t[Len(t)] = ":"

\* /^(elseif\b.*:|else\s*:)$/
IsBranchRealign(t) ==
  \/ Len(t) >= 2 /\ t[1] = "elseif" /\ t[Len(t)] = ":"
  \/ WordColonOnly(t, "else")

-----------------------------------------------------------------------------
(* server.ts, section 3: settings *)

defaultSettings ==
  [format |-> [enabled |-> TRUE, indentSize |-> 2],
   lint |-> [missingColon |-> [severity |-> "hint"],
             unbalancedTask |-> [severity |-> "warning"]],
   completion |-> [extraKeywords |-> {}]]

\* JSON values of a notification's payload.  A number is kept in tenths so
\* that a fraction (2.5 is 25 tenths) can be told from an integer; a missing
\* key, or a key under a missing section (cfg.format?.indentSize), reads as
\* undefined.
Undefined == [type |-> "undefined"]
JNull == [type |-> "null"]
JBool(b) == [type |-> "boolean", bool |-> b]
JNum(tenths) == [type |-> "number", tenths |-> tenths]
JStr(s) == [type |-> "string", str |-> s]
JArr(elems) == [type |-> "array", elems |-> elems]

\* Math.floor, on tenths
Floor(tenths) == tenths \div 10

\* clampInt with the clamp to min..max left out
clampInt_NoClamp(v, min, max, def) ==
  IF v.type = "number" THEN Floor(v.tenths) ELSE def

clampInt(v, min, max, def) ==
  LET n == IF v.type = "number" THEN Floor(v.tenths) ELSE def
  IN Max(min, Min(max, n))

LintLevels == {"off", "hint", "warning", "error"}

validateLint(v, def) ==
  IF v.type = "string" /\ v.str \in LintLevels THEN v.str ELSE def

\* change.settings?.roop || {} : the section, or one with every key missing
EmptySection ==
  [enabled |-> Undefined, indentSize |-> Undefined, missingColon |-> Undefined,
   unbalancedTask |-> Undefined, extraKeywords |-> Undefined]

RoopSection(change) ==
  IF change.roop.type = "object" THEN change.roop.section ELSE EmptySection

\* the settings onDidChangeConfiguration installs for a notification
onDidChangeConfiguration(change) ==
  LET cfg == RoopSection(change)
  IN [format |->
        [enabled |-> IF cfg.enabled.type \in {"undefined", "null"}
                     THEN defaultSettings.format.enabled
                     ELSE IF cfg.enabled.type = "boolean" THEN cfg.enabled.bool
                     ELSE cfg.enabled,
         indentSize |-> clampInt(cfg.indentSize, 2, 8,
                                 defaultSettings.format.indentSize)],
      lint |->
        [missingColon |->
           [severity |-> validateLint(cfg.missingColon,
                           defaultSettings.lint.missingColon.severity)],
         unbalancedTask |->
           [severity |-> validateLint(cfg.unbalancedTask,
                           defaultSettings.lint.unbalancedTask.severity)]],
      completion |->
        [extraKeywords |-> IF cfg.extraKeywords.type = "array"
                           THEN cfg.extraKeywords.elems ELSE {}]]

\* vscode-languageserver DiagnosticSeverity: Error 1, Warning 2, Hint 4;
\* 0 stands for undefined
toSeverity(level) ==
  CASE level = "hint" -> 4
    [] level = "warning" -> 2
    [] level = "error" -> 1
    [] OTHER -> 0

-----------------------------------------------------------------------------
(* server.ts, section 4: catalogs used by the leading-verb check *)

DIRECTIVES == {"import", "include", "pragma"}

STRUCTURAL ==
  {"start task", "end task", "template task", "context", "use module",
   "define", "run", "call", "await run", "detached run", "assign",
   "dispatch task", "synchronize"}

CONTROL ==
  {"when", "on", "if", "elseif", "else", "repeat", "while", "for", "parallel",
   "at time", "break", "continue", "exit", "abort", "retry", "fallback"}

OPERATORS ==
  {"and", "or", "not", "is", "exists", "near", "on", "in", "before", "after",
   "within", "confidently", "probably", "similar to", "anchor on",
   "relative to"}

\* ACTIONS, the action catalog by domain (the name is a reserved word of
\* TLA+); a verb is the sequence of its words
ACTION_CATALOG ==
  ("Perception" :>
    {<<"detect">>, <<"scan">>, <<"observe">>, <<"track">>,
       <<"classify">>, <<"identify">>, <<"localize">>, <<"map">>,
       <<"estimate">>}) @@
  ("Navigation" :>
    {<<"move">>, <<"navigate">>, <<"go", "to">>, <<"approach">>,
       <<"follow">>, <<"back", "off">>, <<"retreat">>, <<"avoid">>,
       <<"dock">>, <<"undock">>, <<"align">>, <<"orient">>, <<"set",
       "speed">>}) @@
  ("Manipulation" :>
    {<<"grasp">>, <<"release">>, <<"pick">>, <<"place">>,
       <<"push">>, <<"pull">>, <<"press">>, <<"turn">>, <<"flip">>,
       <<"slide">>, <<"insert">>, <<"remove">>, <<"pour">>,
       <<"fill">>, <<"empty">>, <<"stir">>, <<"scoop">>, <<"shake">>,
       <<"tighten">>, <<"loosen">>, <<"open">>, <<"close">>,
       <<"lock">>, <<"unlock">>}) @@
  ("Environment" :>
    {<<"turn", "on">>, <<"turn", "off">>, <<"dim">>, <<"brighten">>,
       <<"toggle">>, <<"set", "temperature">>, <<"ventilate">>,
       <<"humidify">>}) @@
  ("Household" :>
    {<<"clean">>, <<"wipe">>, <<"wash">>, <<"rinse">>, <<"dry">>,
       <<"vacuum">>, <<"mop">>, <<"sweep">>, <<"sanitize">>,
       <<"disinfect">>, <<"sort">>, <<"stack">>, <<"fold">>}) @@
  ("Kitchen" :>
    {<<"cook">>, <<"bake">>, <<"boil">>, <<"fry">>, <<"heat">>,
       <<"cool">>, <<"brew">>, <<"serve">>, <<"deliver">>}) @@
  ("Logistics" :>
    {<<"fetch">>, <<"bring">>, <<"collect">>, <<"carry">>,
       <<"transfer">>, <<"handover">>}) @@
  ("Communication" :>
    {<<"say">>, <<"display">>, <<"notify">>, <<"ask">>,
       <<"expect">>, <<"wait", "for">>, <<"log">>, <<"play">>,
       <<"pause">>, <<"stop">>, <<"resume">>, <<"record">>,
       <<"capture">>, <<"photograph">>, <<"stream">>}) @@
  ("Measurement" :>
    {<<"measure">>, <<"weigh">>, <<"sample">>, <<"analyze">>,
       <<"test">>, <<"calibrate">>, <<"self-check">>}) @@
  ("Maintenance" :>
    {<<"charge">>, <<"start", "module">>, <<"stop", "module">>,
       <<"restart", "module">>}) @@
  ("Multi-robot" :>
    {<<"assign">>, <<"dispatch">>, <<"synchronize">>,
       <<"coordinate">>, <<"share", "map">>}) @@
  ("Data & Memory" :>
    {<<"remember">>, <<"recall">>, <<"store">>, <<"load">>}) @@
  ("Safety" :>
    {<<"emergency", "stop">>, <<"yield">>, <<"wait">>}) @@
  ("Planning" :>
    {<<"plan">>, <<"plan", "path">>, <<"plan", "grasp">>})

EVENTS == <<"failure", "success", "timeout", "deviation", "interruption">>

\* the text of a verb: its words joined by single blanks
PhraseText(words) ==
  LET f[k \in 1..Len(words)] ==
        IF k = 1 THEN words[1] ELSE f[k - 1] \o " " \o words[k]
  IN f[Len(words)]

ALL_MULTIWORD_STARTERS ==
  DIRECTIVES \cup STRUCTURAL \cup CONTROL \cup OPERATORS \cup
  {"turn on", "turn off", "go to", "back off", "set speed", "emergency stop",
   "plan path", "plan grasp", "wait for", "at time", "dispatch task"}

SINGLE_WORD_STARTERS ==
  {"let", "say", "move", "grasp", "release", "display", "notify", "ask",
   "expect", "log", "detect", "scan", "observe", "track", "classify",
   "identify", "localize", "map", "navigate", "approach", "follow",
   "retreat", "avoid", "dock", "undock", "align", "orient", "push",
   "pull", "press", "turn", "flip", "slide", "insert", "remove", "pour",
   "fill", "empty", "stir", "scoop", "shake", "tighten", "loosen", "open",
   "close", "lock", "unlock", "clean", "wipe", "wash", "rinse", "dry",
   "vacuum", "mop", "sweep", "sanitize", "disinfect", "sort", "stack",
   "fold", "cook", "bake", "boil", "fry", "heat", "cool", "brew", "serve",
   "deliver", "fetch", "bring", "collect", "carry", "transfer",
   "handover", "play", "pause", "stop", "resume", "record", "capture",
   "photograph", "stream", "measure", "weigh", "sample", "analyze",
   "test", "calibrate", "charge", "assign", "dispatch", "synchronize",
   "coordinate", "remember", "recall", "store", "load", "yield", "wait",
   "plan", "run", "call", "define", "context", "template", "start", "end",
   "use", "import", "include", "pragma", "abort", "retry", "fallback",
   "break", "continue", "exit", "parallel", "if", "elseif", "else",
   "when", "on", "while", "repeat", "for"}

\* the multi-word starters firstVerb tries, as pairs of words
FirstVerbMulti ==
  << <<"dispatch", "task">>, <<"await", "run">>, <<"detached", "run">>,
     <<"start", "task">>, <<"end", "task">>, <<"turn", "on">>,
     <<"turn", "off">>, <<"go", "to">>, <<"back", "off">>,
     <<"set", "speed">>, <<"at", "time">>, <<"plan", "path">>,
     <<"plan", "grasp">> >>

\* t starts with the phrase "a b" followed by a blank, ':' or '"', or is it
StartsWithPhrase(t, m) ==
  /\ Len(t) >= 3 /\ t[1] = m[1] /\ t[2] = " " /\ t[3] = m[2]
  /\ (Len(t) = 3 \/ t[4] \in {" ", ":"} \cup StringLits)

\* the leading verb of a line, or "" for null
firstVerb(line) ==
  LET t == Trim(line)
      hits == {k \in 1..Len(FirstVerbMulti) : StartsWithPhrase(t, FirstVerbMulti[k])}
  IN IF t = <<>> \/ t[1] = "//" THEN ""
     ELSE IF hits # {}
          THEN LET m == FirstVerbMulti[CHOOSE k \in hits : \A j \in hits : k <= j]
               IN m[1] \o " " \o m[2]
          ELSE IF IsAlphaTok(t[1]) THEN t[1] ELSE ""

-----------------------------------------------------------------------------
(* server.ts, section 6: diagnostics *)

MissingColonMessage == "Block header should end with ':'"

UnbalancedMessage(starts, ends) ==
  "Unbalanced tasks: found " \o ToString(starts) \o " 'start task' and "
    \o ToString(ends) \o " 'end task'."

UnknownVerbMessage(v) == "Unrecognized leading verb '" \o v \o "'."

makeRange(line, startChar, endChar) ==
  [line |-> line, startChar |-> startChar, endChar |-> endChar]

\* 6.1: one diagnostic per candidate header line whose trimmed text lacks ':'
MissingColonFires(text) ==
  endsWithColonCandidate(text) /\ ~EndsWithColon(Trim(text))

MissingColonPass(doc, settings) ==
  LET sev == toSeverity(settings.lint.missingColon.severity)
      f[i \in 0..Len(doc)] ==
        IF i = 0 THEN <<>>
        ELSE f[i - 1] \o
             (IF MissingColonFires(doc[i])
              THEN << [severity |-> sev, message |-> MissingColonMessage,
                       source |-> "roop",
                       range |-> makeRange(i - 1, 0, TextLength(doc[i]))] >>
              ELSE <<>>)
  IN IF settings.lint.missingColon.severity # "off" THEN f[Len(doc)] ELSE <<>>

\* 6.2: the counts of 'start task' and 'end task' lines are compared
CountLines(doc, P(_)) == Cardinality({i \in 1..Len(doc) : P(doc[i])})

UnbalancedTaskPass(doc, settings) ==
  LET starts == CountLines(doc, isStartTask)
      ends == CountLines(doc, isEndTask)
      sev == toSeverity(settings.lint.unbalancedTask.severity)
  IN IF settings.lint.unbalancedTask.severity # "off" /\ starts # ends
     THEN << [severity |-> sev, message |-> UnbalancedMessage(starts, ends),
              source |-> "roop",
              range |-> makeRange(0, 0, Max(1, TextLength(doc[1])))] >>
     ELSE <<>>

\* 6.3: leading verb outside the catalogs and the extra keywords
LeadingSpaces(raw) == SkipSpaces(raw, 1) - 1

UnknownVerbFires(raw, settings) ==
  LET text == Trim(raw)
      v == firstVerb(text)
  IN /\ text # <<>>
     /\ text[1] # "//"
     /\ text[1] \notin StringLits
     /\ v # ""
     /\ v \notin SINGLE_WORD_STARTERS
     /\ v \notin ALL_MULTIWORD_STARTERS
     /\ v \notin settings.completion.extraKeywords

UnknownVerbPass(doc, settings) ==
  LET f[i \in 0..Len(doc)] ==
        IF i = 0 THEN <<>>
        ELSE f[i - 1] \o
             (IF UnknownVerbFires(doc[i], settings)
              THEN LET v == firstVerb(Trim(doc[i]))
                       at == LeadingSpaces(doc[i])
                   IN << [severity |-> 4, message |-> UnknownVerbMessage(v),
                          source |-> "roop",
                          range |-> makeRange(i - 1, at, at + Len(v))] >>
              ELSE <<>>)
  IN f[Len(doc)]

\* the diagnostics validateTextDocument sends for doc
validateTextDocument(doc, settings) ==
  MissingColonPass(doc, settings) \o UnbalancedTaskPass(doc, settings)
    \o UnknownVerbPass(doc, settings)

-----------------------------------------------------------------------------
(* server.ts, section 7: completion *)

AllBlank(t) == \A i \in 1..Len(t) : IsSpace(t[i])

\* /\bw\s+$/ : the word w, then blanks up to the cursor
EndsWithWordBlanks(t, w) ==
  \E j \in 1..(Len(t) - 1) : t[j] = w /\ AllBlank(SubSeq(t, j + 1, Len(t)))

\* /\brepeat\s+\d*\s*$/
EndsWithRepeatCount(t) ==
  \E j \in 1..(Len(t) - 1) :
    /\ t[j] = "repeat" /\ IsSpace(t[j + 1])
    /\ LET k == SkipSpaces(t, j + 1)
       IN \/ k > Len(t)
          \/ t[k] \in NumberToks /\ AllBlank(SubSeq(t, k + 1, Len(t)))

\* /\bat\s+time\s*$/
EndsWithAtTime(t) ==
  \E j \in 1..(Len(t) - 2) :
    /\ t[j] = "at" /\ IsSpace(t[j + 1])
    /\ LET k == SkipSpaces(t, j + 1)
       IN k <= Len(t) /\ t[k] = "time" /\ AllBlank(SubSeq(t, k + 1, Len(t)))

\* push: a completion item (insertText and documentation are left out)
CompletionItem(label, kind, detail, sort) ==
  [label |-> label, kind |-> kind, detail |-> detail, sortText |-> sort]

\* 7.1: the items of the prefix rules
ContextItems(tillCursor) ==
  (IF AllBlank(tillCursor)
   THEN {CompletionItem("start task", "Snippet", "Begin a task", "a"),
         CompletionItem("when", "Keyword", "Event-triggered block", "b"),
         CompletionItem("if", "Keyword", "Conditional block", "c"),
         CompletionItem("parallel", "Keyword", "Parallel block", "d"),
         CompletionItem("repeat", "Keyword", "Repeat block", "e")}
   ELSE {})
  \cup (IF EndsWithWordBlanks(tillCursor, "on")
        THEN {CompletionItem("on " \o EVENTS[e] \o ":", "Keyword", "Event branch", "a") :
                e \in 1..Len(EVENTS)}
        ELSE {})
  \cup (IF EndsWithWordBlanks(tillCursor, "use")
        THEN {CompletionItem("use module", "Keyword",
                             "Declare a capability module", "a")}
        ELSE {})
  \cup (IF EndsWithRepeatCount(tillCursor)
        THEN {CompletionItem("repeat N times:", "Snippet", "Fixed-count loop", "a")}
        ELSE {})
  \cup (IF EndsWithWordBlanks(tillCursor, "if")
        THEN {CompletionItem("if object \"type\" with color \"c\" is on \"Area\":",
                             "Snippet", "Perceptual condition", "a")}
        ELSE {})
  \cup (IF EndsWithAtTime(tillCursor)
        THEN {CompletionItem("at time \"HH:MM\":", "Snippet", "Time trigger", "a")}
        ELSE {})

\* 7.2, 7.3: the catalogs and the extra keywords
CatalogItems(settings) ==
  UNION {{CompletionItem(PhraseText(v), "Function", cat \o " action", "z") :
            v \in ACTION_CATALOG[cat]} : cat \in DOMAIN ACTION_CATALOG}
  \cup {CompletionItem(d, "Keyword", "Directive", "z") : d \in DIRECTIVES}
  \cup {CompletionItem(s, "Keyword", "Structural", "z") : s \in STRUCTURAL}
  \cup {CompletionItem(op, "Operator", "Operator", "z") : op \in OPERATORS}
  \cup {CompletionItem(x, "Keyword", "Custom keyword", "z") :
          x \in settings.completion.extraKeywords}

\* onCompletion with the catalogs offered only when no prefix rule applies
onCompletion_ContextFirst(doc, pos, settings) ==
  LET tillCursor == Flatten(LexemesBefore(doc[pos.line + 1], pos.character))
  IN IF ContextItems(tillCursor) # {} THEN ContextItems(tillCursor)
     ELSE CatalogItems(settings)

\* the items onCompletion returns at a position; their order in the list is
\* left out, the editor orders them by sortText
onCompletion(doc, pos, settings) ==
  LET tillCursor == Flatten(LexemesBefore(doc[pos.line + 1], pos.character))
  IN ContextItems(tillCursor) \cup CatalogItems(settings)

-----------------------------------------------------------------------------
(* server.ts, section 9: document symbols *)

\* the text between the quotes of a string literal
NameOf(lit) ==
  CASE lit = "\"A\"" -> "A" [] lit = "\"B\"" -> "B"
    [] lit = "\"A//B\"" -> "A//B" [] OTHER -> "?"

\* /^\s*a\s+task\s+"([^"]+)"/ : the index of the literal, or 0
QuotedTaskAt(line, a) ==
  LET t == TrimStart(line)
      j == TwoWordAt(t, a, "task")
  IN IF j > 0 /\ j + 2 <= Len(t) /\ IsSpace(t[j + 1])
     THEN LET k == SkipSpaces(t, j + 1)
          IN IF k <= Len(t) /\ t[k] \in StringLits THEN k ELSE 0
     ELSE 0

\* start task "name"
TaskMatch(line) ==
  LET k == QuotedTaskAt(line, "start")
  IN IF k > 0 THEN NameOf(TrimStart(line)[k]) ELSE ""

\* template task "name":
TemplateMatch(line) ==
  LET t == TrimStart(line)
      k == QuotedTaskAt(line, "template")
  IN IF k > 0 /\ k < Len(t) /\ t[k + 1] = ":" THEN NameOf(t[k]) ELSE ""

MakeSymbol(doc, frame, endLine) ==
  [name |-> frame.name, kind |-> frame.kind,
   startLine |-> frame.startLine, endLine |-> endLine,
   endChar |-> TextLength(doc[endLine + 1]),
   selEndChar |-> TextLength(doc[frame.startLine + 1])]

\* CloseAtEof with a frame left open closed at the line after its start
RECURSIVE CloseAtEof_NextLine(_, _, _)
CloseAtEof_NextLine(doc, stack, symbols) ==
  IF stack = <<>> THEN symbols
  ELSE CloseAtEof_NextLine(doc, SubSeq(stack, 1, Len(stack) - 1),
         Append(symbols, MakeSymbol(doc, stack[Len(stack)],
                  Min(stack[Len(stack)].startLine + 1, Len(doc) - 1))))

\* the frames left open are closed at the last line, innermost first
RECURSIVE CloseAtEof(_, _, _)
CloseAtEof(doc, stack, symbols) ==
  IF stack = <<>> THEN symbols
  ELSE CloseAtEof(doc, SubSeq(stack, 1, Len(stack) - 1),
                  Append(symbols, MakeSymbol(doc, stack[Len(stack)], Len(doc) - 1)))

onDocumentSymbol(doc) ==
  LET st[i \in 0..Len(doc)] ==
        IF i = 0 THEN [stack |-> <<>>, symbols |-> <<>>]
        ELSE LET p == st[i - 1]
                 text == doc[i]
             IN IF TaskMatch(text) # ""
                THEN [p EXCEPT !.stack = Append(@,
                        [name |-> TaskMatch(text), startLine |-> i - 1,
                         kind |-> "Module"])]
                ELSE IF TemplateMatch(text) # ""
                THEN [p EXCEPT !.stack = Append(@,
                        [name |-> "(template) " \o TemplateMatch(text),
                         startLine |-> i - 1, kind |-> "Class"])]
                ELSE IF isEndTask(text) /\ p.stack # <<>>
                THEN [stack |-> SubSeq(p.stack, 1, Len(p.stack) - 1),
                      symbols |-> Append(p.symbols,
                        MakeSymbol(doc, p.stack[Len(p.stack)], i - 1))]
                ELSE p
      final == st[Len(doc)]
  IN CloseAtEof(doc, final.stack, final.symbols)

-----------------------------------------------------------------------------
(* server.ts, section 10: folding ranges *)

\* pushFold: a fold is kept only when it spans more than one line
pushFold(folds, start, end, kind) ==
  IF end > start
  THEN Append(folds, [startLine |-> start, endLine |-> end, kind |-> kind])
  ELSE folds

\* task folds: one remembered 'start task' line (-1 for null)
TaskFolds(doc) ==
  LET st[i \in 0..Len(doc)] ==
        IF i = 0 THEN [taskStart |-> -1, folds |-> <<>>]
        ELSE LET p == st[i - 1]
             IN IF isStartTask(doc[i]) THEN [p EXCEPT !.taskStart = i - 1]
                ELSE IF isEndTask(doc[i]) /\ p.taskStart # -1
                THEN [taskStart |-> -1,
                      folds |-> pushFold(p.folds, p.taskStart, i - 1, "region")]
                ELSE p
  IN st[Len(doc)].folds

RECURSIVE CloseFoldsAtEof(_, _, _)
CloseFoldsAtEof(stack, folds, eof) ==
  IF stack = <<>> THEN folds
  ELSE CloseFoldsAtEof(SubSeq(stack, 1, Len(stack) - 1),
                       pushFold(folds, stack[Len(stack)], eof, ""), eof)

\* block folds: headers are pushed, a blank line closes the innermost one
BlockFolds(doc) ==
  LET st[i \in 0..Len(doc)] ==
        IF i = 0 THEN [stack |-> <<>>, folds |-> <<>>]
        ELSE LET p == st[i - 1]
                 t == Trim(doc[i])
             IN IF IsBlockStarter(t) THEN [p EXCEPT !.stack = Append(@, i - 1)]
                ELSE IF t = <<>> /\ p.stack # <<>>
                THEN [stack |-> SubSeq(p.stack, 1, Len(p.stack) - 1),
                      folds |-> pushFold(p.folds, p.stack[Len(p.stack)], i - 2, "")]
                ELSE p
      final == st[Len(doc)]
  IN CloseFoldsAtEof(final.stack, final.folds, Len(doc) - 1)

onFoldingRanges(doc) == TaskFolds(doc) \o BlockFolds(doc)

-----------------------------------------------------------------------------
(* server.ts, section 11: formatting *)

\* PreDecrease with the clamp at 0 left out
PreDecrease_Unclamped(level, trimmed) ==
  IF TwoWordAt(trimmed, "end", "task") > 0 THEN level - 1
  ELSE IF IsBranchRealign(trimmed) THEN level - 1
  ELSE level

\* the level after the pre-decrease for 'end task' and 'elseif ...:'/'else:'
PreDecrease(level, trimmed) ==
  IF TwoWordAt(trimmed, "end", "task") > 0 THEN Max(0, level - 1)
  ELSE IF IsBranchRealign(trimmed) THEN Max(0, level - 1)
  ELSE level

\* the level after the post-increase for 'start task' and block headers
PostIncrease(level, trimmed) ==
  IF TwoWordAt(trimmed, "start", "task") > 0 THEN level + 1
  ELSE IF IsBlockStarter(trimmed) THEN level + 1
  ELSE level

\* FormatLine with the colon normalisation left out
FormatLine_NoColon(level, indentSize, trimmed) ==
  Spaces(level * indentSize) \o trimmed

\* FormatLine with ':' put after every header-shaped line
FormatLine_ColonAlways(level, indentSize, trimmed) ==
  LET pad == Spaces(level * indentSize)
  IN IF endsWithColonCandidate(trimmed)
     THEN pad \o trimmed \o <<":">>
     ELSE pad \o trimmed

\* the line as written: padding, trimmed text and, on a header without it, ':'
FormatLine(level, indentSize, trimmed) ==
  LET pad == Spaces(level * indentSize)
  IN IF endsWithColonCandidate(trimmed) /\ ~EndsWithColon(trimmed)
     THEN pad \o trimmed \o <<":">>
     ELSE pad \o trimmed

\* the formatter's pass: for every line the level it is written at, and its text
FormatPass(doc, settings) ==
  LET st[i \in 0..Len(doc)] ==
        IF i = 0 THEN [level |-> 0, levels |-> <<>>, lines |-> <<>>]
        ELSE LET p == st[i - 1]
                 trimmed == Trim(doc[i])
                 level == PreDecrease(p.level, trimmed)
             IN [level |-> PostIncrease(level, trimmed),
                 levels |-> Append(p.levels, level),
                 lines |-> Append(p.lines,
                             FormatLine(level, settings.format.indentSize, trimmed))]
  IN st[Len(doc)]

\* the new text of the single edit onDocumentFormatting returns
onDocumentFormatting(doc, settings) == FormatPass(doc, settings).lines

-----------------------------------------------------------------------------
(* server.ts, section 12: code actions *)

AddColonTitle == "Add ':' to block header"

\* onCodeAction with the ':' put after the line as it is, trailing blanks kept
onCodeAction_KeepBlanks(doc, context) ==
  LET f[i \in 0..Len(context)] ==
        IF i = 0 THEN <<>>
        ELSE LET d == context[i]
             IN IF d.message = MissingColonMessage
                THEN LET line == d.range.line
                         text == doc[line + 1]
                     IN Append(f[i - 1],
                          [title |-> AddColonTitle, kind |-> "quickfix",
                           diagnostics |-> <<d>>,
                           edit |-> [range |-> makeRange(line, 0, TextLength(text)),
                                     newText |-> text \o <<":">>]])
                ELSE f[i - 1]
  IN f[Len(context)]

\* one quick fix per diagnostic whose message is the missing-colon message
onCodeAction(doc, context) ==
  LET f[i \in 0..Len(context)] ==
        IF i = 0 THEN <<>>
        ELSE LET d == context[i]
             IN IF d.message = MissingColonMessage
                THEN LET line == d.range.line
                         text == doc[line + 1]
                     IN Append(f[i - 1],
                          [title |-> AddColonTitle, kind |-> "quickfix",
                           diagnostics |-> <<d>>,
                           edit |-> [range |-> makeRange(line, 0, TextLength(text)),
                                     newText |-> TrimEnd(text) \o <<":">>]])
                ELSE f[i - 1]
  IN f[Len(context)]

-----------------------------------------------------------------------------
(* extension.ts: patterns of the client fallback features.  The patterns   *)
(* carry the i flag; the lexemes of the model are lower case.              *)

\* the rest of t from index i is \s*:?\s*
RestIsOptColon(t, i) ==
  LET j == SkipSpaces(t, i)
  IN j > Len(t) \/ (t[j] = ":" /\ SkipSpaces(t, j + 1) > Len(t))

HEADER_MAY_REQUIRE_COLON_RE(text) ==
  LET t == TrimStart(text)
  IN /\ t # <<>>
     /\ \/ t[1] \in {"when", "on", "at", "if", "elseif", "repeat", "while",
                     "for", "context", "every"}
        \/ TwoWordAt(t, "with", "timeout") > 0
        \/ TwoWordAt(t, "sync", "when") > 0
        \/ TwoWordAt(t, "template", "task") > 0
        \/ t[1] \in {"else", "parallel", "fallback"} /\ RestIsOptColon(t, 2)

INCREASE_INDENT_RE(text) ==
  LET e == Trim(text)
  IN /\ e # <<>>
     /\ \/ /\ e[1] \in {"when", "on", "at", "if", "elseif", "else", "repeat",
                        "while", "for", "parallel", "context", "every", "run"}
           /\ Len(e) >= 2 /\ e[Len(e)] = ":"
        \/ \E pair \in {<<"with", "timeout">>, <<"sync", "when">>,
                        <<"detached", "run">>, <<"await", "run">>,
                        <<"template", "task">>} :
             LET j == TwoWordAt(e, pair[1], pair[2])
             IN j > 0 /\ j < Len(e) /\ e[Len(e)] = ":"
        \/ TwoWordAt(e, "start", "task") > 0
        \/ e = <<"fallback", ":">>

DECREASE_INDENT_RE(text) ==
  LET e == Trim(text)
  IN /\ e # <<>>
     /\ \/ TwoWordAt(e, "end", "task") = Len(e)
        \/ e[1] = "elseif" /\ Len(e) >= 2 /\ e[Len(e)] = ":"
        \/ e = <<"else", ":">>

\* /:\s*$/
HasTrailingColon(text) == EndsWithColon(TrimEnd(text))

\* what text.slice(0, text.indexOf("//")) keeps of the lexeme in which the
\* first "//" lies: nothing of the comment marker, the opening quote and the
\* characters before the slashes of a string literal
BeforeSlashes(lexeme) == IF lexeme = "\"A//B\"" THEN <<"\"A">> ELSE <<>>

\* the index of the lexeme that holds the first "//" of the line, or 0
CommentAt(text) ==
  LET hits == {i \in 1..Len(text) : text[i] \in {"//", "\"A//B\""}}
  IN IF hits = {} THEN 0 ELSE CHOOSE i \in hits : \A j \in hits : i <= j

stripLineComment(text) ==
  LET idx == CommentAt(text)
  IN TrimEnd(IF idx > 0
             THEN SubSeq(text, 1, idx - 1) \o BeforeSlashes(text[idx])
             ELSE text)

-----------------------------------------------------------------------------
(* extension.ts, section 4.3: fallback document formatter *)

defaultConfig ==
  [validation |-> [enable |-> TRUE, maxProblems |-> 200],
   lint |-> [missingColon |-> [severity |-> "hint"],
             unbalancedTask |-> [severity |-> "warning"]],
   format |-> [enabled |-> TRUE, indentSize |-> 2],
   completion |-> [extraKeywords |-> {}]]

\* 'Normalize header colon': trailing blanks are replaced by ':'
NormalizeHeader(text) ==
  IF HEADER_MAY_REQUIRE_COLON_RE(Trim(text)) /\ ~HasTrailingColon(text)
  THEN TrimEnd(text) \o <<":">>
  ELSE text

ClientDecrease(indentLevel, trimmed) ==
  IF DECREASE_INDENT_RE(trimmed) /\ indentLevel > 0 THEN indentLevel - 1
  ELSE indentLevel

ClientIncrease(indentLevel, trimmed) ==
  IF INCREASE_INDENT_RE(trimmed) THEN indentLevel + 1 ELSE indentLevel

\* the pass of provideDocumentFormattingEdits: levels, rebuilt lines, edits
ClientFormatPass(doc, cfg) ==
  LET indentSize == Max(2, Min(8, cfg.format.indentSize))
      st[i \in 0..Len(doc)] ==
        IF i = 0 THEN [level |-> 0, levels |-> <<>>, lines |-> <<>>, edits |-> <<>>]
        ELSE LET p == st[i - 1]
                 trimmed == TrimStart(NormalizeHeader(doc[i]))
                 level == ClientDecrease(p.level, trimmed)
                 rebuilt == Spaces(level * indentSize) \o trimmed
             IN [level |-> ClientIncrease(level, trimmed),
                 levels |-> Append(p.levels, level),
                 lines |-> Append(p.lines, rebuilt),
                 edits |-> IF rebuilt # doc[i]
                           THEN Append(p.edits,
                                  [range |-> makeRange(i - 1, 0, TextLength(doc[i])),
                                   newText |-> rebuilt])
                           ELSE p.edits]
  IN st[Len(doc)]

provideDocumentFormattingEdits(doc, cfg) == ClientFormatPass(doc, cfg).edits

-----------------------------------------------------------------------------
(* extension.ts, section 5: client validation *)

\* vscode.DiagnosticSeverity: Error 0, Warning 1, Hint 3; 0 also for "off"
clientToSeverity(s) ==
  CASE s = "hint" -> 3
    [] s = "warning" -> 1
    [] s = "error" -> 0
    [] OTHER -> 0

ClientMissingColonMessage == "Block header is missing a trailing ':'"
EndWithoutStartMessage == "\"end task\" without a matching \"start task\"."
StartWithoutEndMessage == "\"start task\" has no matching \"end task\"."

ClientMissingColonFires(lineText) ==
  LET text == Trim(stripLineComment(lineText))
  IN /\ Trim(lineText) # <<>>
     /\ text # <<>>
     /\ HEADER_MAY_REQUIRE_COLON_RE(text)
     /\ ~HasTrailingColon(text)

collectMissingColonDiagnostics(doc, severity, budget) ==
  LET f[i \in 0..Len(doc)] ==
        IF i = 0 THEN <<>>
        ELSE LET out == f[i - 1]
             IN IF Len(out) < budget /\ ClientMissingColonFires(doc[i])
                THEN Append(out, [severity |-> severity,
                                  message |-> ClientMissingColonMessage,
                                  range |-> makeRange(i - 1, 0, TextLength(doc[i]))])
                ELSE out
  IN IF budget <= 0 THEN <<>> ELSE f[Len(doc)]

\* the open 'start task' lines left on the stack are reported innermost first
RECURSIVE ReportUnclosed(_, _, _, _, _)
ReportUnclosed(doc, stack, out, severity, budget) ==
  IF stack # <<>> /\ Len(out) < budget
  THEN LET line == stack[Len(stack)]
       IN ReportUnclosed(doc, SubSeq(stack, 1, Len(stack) - 1),
            Append(out, [severity |-> severity, message |-> StartWithoutEndMessage,
                         range |-> makeRange(line, 0, TextLength(doc[line + 1]))]),
            severity, budget)
  ELSE out

\* the scan of collectTaskBalanceDiagnostics: the stack and the diagnostics
TaskBalanceScan(doc, severity, budget) ==
  LET st[i \in 0..Len(doc)] ==
        IF i = 0 THEN [stack |-> <<>>, out |-> <<>>]
        ELSE LET p == st[i - 1]
                 text == stripLineComment(doc[i])
             IN IF Len(p.out) >= budget \/ text = <<>> THEN p
                ELSE IF isStartTask(text) THEN [p EXCEPT !.stack = Append(@, i - 1)]
                ELSE IF isEndTask(text)
                THEN IF p.stack = <<>>
                     THEN [p EXCEPT !.out = Append(@,
                             [severity |-> severity, message |-> EndWithoutStartMessage,
                              range |-> makeRange(i - 1, 0, TextLength(doc[i]))])]
                     ELSE [p EXCEPT !.stack = SubSeq(@, 1, Len(@) - 1)]
                ELSE p
  IN st

collectTaskBalanceDiagnostics(doc, severity, budget) ==
  LET final == TaskBalanceScan(doc, severity, budget)[Len(doc)]
  IN IF budget <= 0 THEN <<>>
     ELSE ReportUnclosed(doc, final.stack, final.out, severity, budget)

\* /^\s*start\s+task\s+"([^"]+)"\s*$/i on a text without trailing blanks:
\* the name, or "" for no match
ClientTaskMatch(text) ==
  LET k == QuotedTaskAt(text, "start")
  IN IF k > 0 /\ k = Len(TrimStart(text)) THEN NameOf(TrimStart(text)[k]) ELSE ""

\* the tasks of a document: closed ones in the order of their 'end task',
\* then the ones left open in the order they were opened
parseTasks(doc) ==
  LET st[i \in 0..Len(doc)] ==
        IF i = 0 THEN [stack |-> <<>>, tasks |-> <<>>]
        ELSE LET p == st[i - 1]
                 text == stripLineComment(doc[i])
             IN IF text = <<>> THEN p
                ELSE IF ClientTaskMatch(text) # ""
                THEN [p EXCEPT !.stack = Append(@,
                        [name |-> ClientTaskMatch(text), startLine |-> i - 1])]
                ELSE IF isEndTask(text) /\ p.stack # <<>>
                THEN [stack |-> SubSeq(p.stack, 1, Len(p.stack) - 1),
                      tasks |-> Append(p.tasks,
                        [name |-> p.stack[Len(p.stack)].name,
                         startLine |-> p.stack[Len(p.stack)].startLine,
                         endLine |-> i - 1])]
                ELSE p
      final == st[Len(doc)]
  IN final.tasks \o
     [k \in 1..Len(final.stack) |->
        [name |-> final.stack[k].name, startLine |-> final.stack[k].startLine,
         endLine |-> Len(doc) - 1]]

\* validateDocument with the whole budget handed to the balance check
validateDocument_WholeBudget(doc, cfg) ==
  LET maxProblems == Max(1, cfg.validation.maxProblems)
      sevMissing == clientToSeverity(cfg.lint.missingColon.severity)
      sevUnbalanced == clientToSeverity(cfg.lint.unbalancedTask.severity)
      d1 == IF sevMissing # 0
            THEN collectMissingColonDiagnostics(doc, sevMissing, maxProblems)
            ELSE <<>>
      d2 == IF Len(d1) < maxProblems /\ sevUnbalanced # 0
            THEN collectTaskBalanceDiagnostics(doc, sevUnbalanced, maxProblems)
            ELSE <<>>
  IN d1 \o d2

\* the diagnostics validateDocument sets for doc (validation enabled)
validateDocument(doc, cfg) ==
  LET maxProblems == Max(1, cfg.validation.maxProblems)
      sevMissing == clientToSeverity(cfg.lint.missingColon.severity)
      sevUnbalanced == clientToSeverity(cfg.lint.unbalancedTask.severity)
      d1 == IF sevMissing # 0
            THEN collectMissingColonDiagnostics(doc, sevMissing, maxProblems)
            ELSE <<>>
      d2 == IF Len(d1) < maxProblems /\ sevUnbalanced # 0
            THEN collectTaskBalanceDiagnostics(doc, sevUnbalanced,
                                               maxProblems - Len(d1))
            ELSE <<>>
  IN d1 \o d2

-----------------------------------------------------------------------------
(* The editing session: one open document, the server and the client *)

VARIABLES
  doc,             \* the lines of the open document (kept in sync by TextDocuments)
  globalSettings,  \* server.ts: globalSettings
  config,          \* extension.ts: the workspace configuration "roop"
  published,       \* the diagnostics the server last sent for the document
  diagnostics,     \* extension.ts: the client's DiagnosticCollection entry
  response,        \* the result of the last request on the current text
  notifications,   \* workspace/didChangeConfiguration payloads in flight
  documents,       \* server.ts: documents, the text of every uri (<<>>: not open)
  sent,            \* the sendDiagnostics calls of the last handler, in order
  latest,          \* per uri, the diagnostics last published for it, if any
  activation,      \* extension.ts: how far activate and deactivate have run
  client,          \* extension.ts: the variable client
  registrations,   \* the identifiers passed to registerCommand, in order
  sentVia          \* the notifications sent through client

\* the variables of the session on one document, of the server's document
\* store and of the extension's life cycle
editorVars == <<doc, config, published, diagnostics, response, notifications>>
workspaceVars == <<documents, sent, latest>>
extensionVars == <<activation, client, registrations, sentVia>>

vars ==
  <<doc, globalSettings, config, published, diagnostics, response,
    notifications, documents, sent, latest, activation, client, registrations,
    sentVia>>

Uris == {"a.roop", "b.roop"}
NotOpen == <<>>
NoClient == [state |-> "undefined"]

\* no document in the store, nothing published
StoreEmpty ==
  /\ documents = [u \in Uris |-> NotOpen]
  /\ sent = <<>>
  /\ latest = [u \in Uris |-> <<>>]

\* the extension before activate is called
ExtensionInactive ==
  /\ activation = "inactive"
  /\ client = NoClient
  /\ registrations = <<>>
  /\ sentVia = <<>>

\* the lines a user types
StartTaskLine == <<"start", " ", "task", " ", "\"A\"">>
EndTaskLine == <<"end", " ", "task">>
SayLine == <<"say", " ", "hi">>
IfLine == <<"if", " ", "x", ":">>
IfNoColonLine == <<"if", " ", "x">>
ElseLine == <<"else", ":">>
RepeatLine == <<"repeat", " ", "3", " ", "times", ":">>
OnFailureCommentLine == <<"on", " ", "failure", " ", "//", " ", "later">>
BlankLine == <<>>
UnnamedStartLine == <<"start", " ", "task", " ", "x">>
TemplateLine == <<"template", " ", "task", " ", "\"B\"", ":">>
CommentLine == <<"//", " ", "note">>
FooLine == <<"foo", " ", "x">>
PaddedRepeatLine == <<" ", " ", "repeat", " ", "3", " ", "times", " ">>
IfCommentLine == <<"if", " ", "x", " ", "//", " ", "note">>

\* typed in a session with the language server
TypedLines ==
  {StartTaskLine, EndTaskLine, SayLine, IfLine, IfNoColonLine, ElseLine,
   RepeatLine, OnFailureCommentLine}

\* typed in a session with the client's validation command
ClientTypedLines == {StartTaskLine, EndTaskLine, IfNoColonLine}

\* typed in a session that exercises outline, folding and formatting
OutlineLines ==
  {StartTaskLine, UnnamedStartLine, TemplateLine, EndTaskLine, SayLine, IfLine,
   ElseLine, BlankLine, CommentLine}

\* typed in a session that asks for quick fixes
QuickFixLines == {IfNoColonLine, PaddedRepeatLine, IfCommentLine, IfLine, SayLine}

\* the one-line documents open while the settings change
SettingsLines == {IfNoColonLine, EndTaskLine, FooLine}

\* the configurations a user has in settings.json
ClientConfigs ==
  {[defaultConfig EXCEPT !.validation.maxProblems = m,
                         !.lint.missingColon.severity = s1,
                         !.lint.unbalancedTask.severity = s2] :
     m \in {0, 2, 200}, s1 \in LintLevels, s2 \in LintLevels}

UserConfigs ==
  {[defaultConfig EXCEPT !.format.enabled = e,
                         !.format.indentSize = n,
                         !.lint.missingColon.severity = s1,
                         !.lint.unbalancedTask.severity = s2,
                         !.completion.extraKeywords = k] :
     e \in BOOLEAN, n \in {2, 4}, s1 \in {"hint", "off", "error"},
     s2 \in {"warning", "off"}, k \in {{}, {"foo"}}}

\* the params of the notification the extension sends: {}
EmptyChange == [roop |-> Undefined]

\* the payloads any client may send
Sections ==
  [enabled : {Undefined, JBool(FALSE)},
   indentSize : {Undefined, JStr("4"), JNum(0), JNum(45), JNum(90)},
   missingColon : {Undefined, JStr("off"), JStr("loud"), JNum(10)},
   unbalancedTask : {JNull, JStr("off"), JStr("error")},
   extraKeywords : {JStr("foo"), JArr({"foo"})}]

Changes ==
  {EmptyChange, [roop |-> JNull]} \cup
  {[roop |-> [type |-> "object", section |-> s]] : s \in Sections}

NoResponse == [kind |-> "none", value |-> <<>>]

\* documents.onDidOpen: the document is opened with one line and validated
Opened(lines) ==
  /\ doc \in {<<l>> : l \in lines}
  /\ globalSettings = defaultSettings
  /\ config = defaultConfig
  /\ published = validateTextDocument(doc, globalSettings)
  /\ diagnostics = <<>>
  /\ response = NoResponse
  /\ notifications = <<>>
  /\ StoreEmpty
  /\ ExtensionInactive

Init == Opened(TypedLines)

\* the session starts with the configuration the user has
InitClient ==
  /\ doc \in {<<l>> : l \in ClientTypedLines}
  /\ globalSettings = defaultSettings
  /\ config \in ClientConfigs
  /\ published = validateTextDocument(doc, globalSettings)
  /\ diagnostics = <<>>
  /\ response = NoResponse
  /\ notifications = <<>>
  /\ StoreEmpty
  /\ ExtensionInactive

InitOutline == Opened(OutlineLines)

InitQuickFix == Opened(QuickFixLines)

\* typed in a session that lists and runs tasks: no template, no comment
StartTaskBLine == <<"start", " ", "task", " ", "\"B\"">>
SlashedStartLine == <<"start", " ", "task", " ", "\"A//B\"">>
TaskLines ==
  {StartTaskLine, StartTaskBLine, SlashedStartLine, EndTaskLine, SayLine, IfLine}

InitTasks == Opened(TaskLines)

\* typed in a session that formats text with blank lines and stray blanks
WhitespaceLine == <<" ", " ">>
FormatLines ==
  {StartTaskLine, EndTaskLine, SayLine, IfLine, IfNoColonLine, IfCommentLine,
   PaddedRepeatLine, BlankLine, WhitespaceLine}

InitFormat == Opened(FormatLines)

\* lines on which a user asks for completions
OnLine == <<"on", " ">>
UseLine == <<"use", " ">>
RepeatCountLine == <<"repeat", " ", "3">>
IfBlankLine == <<"if", " ">>
AtTimeLine == <<"at", " ", "time">>

\* an action verb followed by an argument
VerbLine(v) ==
  LET f[k \in 1..Len(v)] ==
        IF k = 1 THEN <<v[1]>> ELSE f[k - 1] \o <<" ", v[k]>>
  IN f[Len(v)] \o <<" ", "x">>

ActionVerbs == UNION {ACTION_CATALOG[c] : c \in DOMAIN ACTION_CATALOG}

CompletionLines ==
  {BlankLine, OnLine, UseLine, RepeatCountLine, IfBlankLine, AtTimeLine,
   SayLine} \cup {VerbLine(v) : v \in ActionVerbs}

\* the settings payloads that set or leave out the extra keywords
KeywordChanges ==
  {EmptyChange,
   [roop |-> [type |-> "object",
              section |-> [enabled |-> Undefined, indentSize |-> Undefined,
                           missingColon |-> Undefined,
                           unbalancedTask |-> Undefined,
                           extraKeywords |-> JArr({"foo"})]]]}

InitCompletion == Opened(CompletionLines)

\* server start: initializationOptions are not read (server.ts:71-90)
InitSettings ==
  /\ doc \in {<<l>> : l \in SettingsLines}
  /\ globalSettings = defaultSettings
  /\ config \in UserConfigs
  /\ published = validateTextDocument(doc, globalSettings)
  /\ diagnostics = <<>>
  /\ response = NoResponse
  /\ notifications = <<>>
  /\ StoreEmpty
  /\ ExtensionInactive

InitProtocol == Opened(SettingsLines)

\* documents.onDidChangeContent: a line is added at the end; the server
\* validates the new text and publishes
DidChangeContent(l) ==
  /\ Len(doc) < MaxLines
  /\ doc' = Append(doc, l)
  /\ published' = validateTextDocument(doc', globalSettings)
  /\ response' = NoResponse
  /\ UNCHANGED <<globalSettings, config, diagnostics, notifications>>
  /\ UNCHANGED <<workspaceVars, extensionVars>>

DocumentSymbol ==
  /\ response' = [kind |-> "symbols", value |-> onDocumentSymbol(doc)]
  /\ UNCHANGED <<doc, globalSettings, config, published, diagnostics,
               notifications>>
  /\ UNCHANGED <<workspaceVars, extensionVars>>

FoldingRanges ==
  /\ response' = [kind |-> "folds", value |-> onFoldingRanges(doc)]
  /\ UNCHANGED <<doc, globalSettings, config, published, diagnostics,
               notifications>>
  /\ UNCHANGED <<workspaceVars, extensionVars>>

\* connection.onDocumentFormatting: one edit replacing the whole text
DocumentFormatting ==
  /\ response' =
       [kind |-> "formatting",
        value |-> IF globalSettings.format.enabled
                  THEN << [newText |-> onDocumentFormatting(doc, globalSettings)] >>
                  ELSE <<>>]
  /\ UNCHANGED <<doc, globalSettings, config, published, diagnostics,
               notifications>>
  /\ UNCHANGED <<workspaceVars, extensionVars>>

\* the fallback formatter of registerFallbackFeatures: one edit per changed line
ClientFormatting ==
  /\ config.format.enabled
  /\ response' = [kind |-> "clientFormatting",
                  value |-> provideDocumentFormattingEdits(doc, config)]
  /\ UNCHANGED <<doc, globalSettings, config, published, diagnostics,
               notifications>>
  /\ UNCHANGED <<workspaceVars, extensionVars>>

\* the text after the editor applies the edits of a formatting response
AppliedEdits(text, r) ==
  IF r.kind = "formatting" THEN r.value[1].newText
  ELSE [i \in 1..Len(text) |->
          IF \E e \in 1..Len(r.value) : r.value[e].range.line = i - 1
          THEN r.value[CHOOSE e \in 1..Len(r.value) : r.value[e].range.line = i - 1].newText
          ELSE text[i]]

\* the editor applies the returned edits; the change is sent to the server
ApplyFormatting ==
  /\ response.kind \in {"formatting", "clientFormatting"}
  /\ response.value # <<>>
  /\ doc' = AppliedEdits(doc, response)
  /\ published' = validateTextDocument(doc', globalSettings)
  /\ response' = NoResponse
  /\ UNCHANGED <<globalSettings, config, diagnostics, notifications>>
  /\ UNCHANGED <<workspaceVars, extensionVars>>

\* command roop.validateDocument
ValidateCurrentDocument ==
  /\ diagnostics' = IF config.validation.enable
                    THEN validateDocument(doc, config)
                    ELSE <<>>
  /\ UNCHANGED <<doc, globalSettings, config, published, response,
               notifications>>
  /\ UNCHANGED <<workspaceVars, extensionVars>>

\* vscode.workspace.onDidChangeConfiguration: the user edits a roop.*
\* setting; the extension notifies the server with empty params
UserChangesSetting(c) ==
  /\ c # config
  /\ Len(notifications) < MaxNotifications
  /\ config' = c
  /\ notifications' = Append(notifications, EmptyChange)
  /\ UNCHANGED <<doc, globalSettings, published, diagnostics, response>>
  /\ UNCHANGED <<workspaceVars, extensionVars>>

\* connection.onDidChangeConfiguration: the settings are replaced and the
\* open document is validated again
DidChangeConfiguration(change) ==
  /\ globalSettings' = onDidChangeConfiguration(change)
  /\ published' = validateTextDocument(doc, globalSettings')
  /\ UNCHANGED <<doc, config, diagnostics, response>>
  /\ UNCHANGED <<workspaceVars, extensionVars>>

\* the server receives the extension's notification
ReceiveConfiguration ==
  /\ notifications # <<>>
  /\ DidChangeConfiguration(Head(notifications))
  /\ notifications' = Tail(notifications)

\* the server receives a notification of any client
ClientNotifies(change) ==
  /\ DidChangeConfiguration(change)
  /\ UNCHANGED notifications

\* connection.onCodeAction for the published diagnostics
CodeAction ==
  /\ response' = [kind |-> "codeActions", value |-> onCodeAction(doc, published)]
  /\ UNCHANGED <<doc, globalSettings, config, published, diagnostics,
               notifications>>
  /\ UNCHANGED <<workspaceVars, extensionVars>>

\* command roop.runTask with the cursor on a line: the tasks found in the
\* document and the first one that spans the cursor line
RunCurrentTask(cursorLine) ==
  /\ cursorLine \in 0..(Len(doc) - 1)
  /\ LET tasks == parseTasks(doc)
     IN response' =
          [kind |-> "runTask", value |-> tasks,
           selected |-> SelectSeq(tasks, LAMBDA x :
                          /\ cursorLine >= x.startLine /\ cursorLine <= x.endLine
                          /\ \A k \in 1..Len(tasks) :
                               (cursorLine >= tasks[k].startLine
                                  /\ cursorLine <= tasks[k].endLine)
                               => \E j \in 1..k : tasks[j] = x)]
  /\ UNCHANGED <<doc, globalSettings, config, published, diagnostics,
                 notifications>>
  /\ UNCHANGED <<workspaceVars, extensionVars>>

\* the cursor positions of a line that lie between two lexemes
CursorPositions(line) == {TextLength(SubSeq(line, 1, j)) : j \in 0..Len(line)}

\* connection.onCompletion at a cursor position of the document; nothing is
\* published
Completion(l, c) ==
  /\ l \in 0..(Len(doc) - 1)
  /\ c \in CursorPositions(doc[l + 1])
  /\ response' = [kind |-> "completion",
                  position |-> [line |-> l, character |-> c],
                  value |-> onCompletion(doc, [line |-> l, character |-> c],
                                         globalSettings)]
  /\ UNCHANGED <<doc, globalSettings, config, published, diagnostics,
                 notifications>>
  /\ UNCHANGED <<workspaceVars, extensionVars>>

\* the text after the editor applies a TextEdit within one line
ApplyTextEdit(text, e) ==
  LET line == text[e.range.line + 1]
  IN [text EXCEPT ![e.range.line + 1] =
        Flatten(LexemesBefore(line, e.range.startChar)) \o e.newText
          \o Flatten(LexemesFrom(line, e.range.endChar))]

\* the user picks one of the offered quick fixes; the editor applies its
\* edit and the change is sent to the server
ApplyCodeAction(k) ==
  /\ response.kind = "codeActions"
  /\ k \in 1..Len(response.value)
  /\ doc' = ApplyTextEdit(doc, response.value[k].edit)
  /\ published' = validateTextDocument(doc', globalSettings)
  /\ response' = NoResponse
  /\ UNCHANGED <<globalSettings, config, diagnostics, notifications>>
  /\ UNCHANGED <<workspaceVars, extensionVars>>

-----------------------------------------------------------------------------
(* The server's document store: several documents are open at once *)

\* the session on one document and the extension are at rest
EditorIdle ==
  /\ doc = <<BlankLine>>
  /\ config = defaultConfig
  /\ published = <<>>
  /\ diagnostics = <<>>
  /\ response = NoResponse
  /\ notifications = <<>>

InitDocuments ==
  /\ globalSettings = defaultSettings
  /\ StoreEmpty
  /\ EditorIdle
  /\ ExtensionInactive

\* the lines typed into the documents of the store
StoreLines == {IfNoColonLine, StartTaskLine}

\* the settings payloads that switch the missing-colon check off and on
LintChanges ==
  {EmptyChange,
   [roop |-> [type |-> "object",
              section |-> [enabled |-> Undefined, indentSize |-> Undefined,
                           missingColon |-> JStr("off"),
                           unbalancedTask |-> Undefined,
                           extraKeywords |-> Undefined]]]}

\* validateTextDocument(doc) runs without suspension up to its one call
\* connection.sendDiagnostics({uri: doc.uri, diagnostics})
SendDiagnostics(uri, text, settings) ==
  [uri |-> uri, diagnostics |-> validateTextDocument(text, settings)]

\* the uris of documents.all() one after the other
OpenUris(docs) ==
  LET RECURSIVE List(_)
      List(S) == IF S = {} THEN <<>>
                 ELSE LET u == CHOOSE x \in S : TRUE
                      IN <<u>> \o List(S \ {u})
  IN List({u \in Uris : docs[u] # NotOpen})

\* RevalidateAll that stops after the first open document
RevalidateAll_FirstOnly(docs, settings) ==
  LET uris == OpenUris(docs)
  IN [k \in 1..Min(1, Len(uris)) |->
        SendDiagnostics(uris[k], docs[uris[k]], settings)]

\* documents.all().forEach(validateTextDocument)
RevalidateAll(docs, settings) ==
  LET uris == OpenUris(docs)
  IN [k \in 1..Len(uris) |-> SendDiagnostics(uris[k], docs[uris[k]], settings)]

\* what the client holds for every uri after the calls are delivered in order
Delivered(held, calls) ==
  [u \in Uris |->
     LET mine == {k \in 1..Len(calls) : calls[k].uri = u}
     IN IF mine = {} THEN held[u]
        ELSE <<calls[CHOOSE k \in mine : \A j \in mine : j <= k].diagnostics>>]

\* a handler of the store has run and made the calls
Handled(calls) ==
  /\ sent' = calls
  /\ latest' = Delivered(latest, calls)
  /\ UNCHANGED <<editorVars, extensionVars>>

\* documents.onDidOpen
OnDidOpen(uri, l) ==
  /\ documents[uri] = NotOpen
  /\ documents' = [documents EXCEPT ![uri] = <<l>>]
  /\ Handled(<<SendDiagnostics(uri, documents'[uri], globalSettings)>>)
  /\ UNCHANGED globalSettings

\* documents.onDidChangeContent: a line was added to the document
OnDidChangeContent(uri, l) ==
  /\ documents[uri] # NotOpen
  /\ Len(documents[uri]) < MaxLines
  /\ documents' = [documents EXCEPT ![uri] = Append(@, l)]
  /\ Handled(<<SendDiagnostics(uri, documents'[uri], globalSettings)>>)
  /\ UNCHANGED globalSettings

\* documents.onDidSave
OnDidSave(uri) ==
  /\ documents[uri] # NotOpen
  /\ Handled(<<SendDiagnostics(uri, documents[uri], globalSettings)>>)
  /\ UNCHANGED <<documents, globalSettings>>

\* the document is closed: the store drops it and server.ts has no handler
DidClose(uri) ==
  /\ documents[uri] # NotOpen
  /\ documents' = [documents EXCEPT ![uri] = NotOpen]
  /\ Handled(<<>>)
  /\ UNCHANGED globalSettings

\* connection.onDidChangeConfiguration with several documents open
OnDidChangeConfiguration(change) ==
  /\ globalSettings' = onDidChangeConfiguration(change)
  /\ Handled(RevalidateAll(documents, globalSettings'))
  /\ UNCHANGED documents

NextDocuments ==
  \/ \E uri \in Uris, l \in StoreLines : OnDidOpen(uri, l)
  \/ \E uri \in Uris, l \in StoreLines : OnDidChangeContent(uri, l)
  \/ \E uri \in Uris : OnDidSave(uri)
  \/ \E uri \in Uris : DidClose(uri)
  \/ \E change \in LintChanges : OnDidChangeConfiguration(change)

SpecDocuments == InitDocuments /\ [][NextDocuments]_vars

-----------------------------------------------------------------------------
(* extension.ts, sections 2 and 6: activation, language client, deactivation *)

InitActivation ==
  /\ globalSettings = defaultSettings
  /\ StoreEmpty
  /\ EditorIdle
  /\ ExtensionInactive

\* the identifiers registered in section 3 of activate, in order, and the one
\* registered in the block added after it
CommandIds ==
  <<"roop.insertTask", "roop.newProject", "roop.openDocs", "roop.runTask",
    "roop.validateDocument", "roop.scanModules", "roop.generateModuleManifest">>
AddedCommandIds == <<"roop.validateDocument">>

\* vscode.commands.registerCommand called for ids one after the other: a call
\* with an identifier that is already registered throws, which ends the run
RECURSIVE RegisterCommands(_, _)
RegisterCommands(ids, calls) ==
  IF ids = <<>> THEN [calls |-> calls, threw |-> FALSE]
  ELSE IF \E k \in 1..Len(calls) : calls[k] = Head(ids)
       THEN [calls |-> Append(calls, Head(ids)), threw |-> TRUE]
       ELSE RegisterCommands(Tail(ids), Append(calls, Head(ids)))

\* activate up to 'await client.start()' inside startLanguageClient: the
\* client is created and assigned before it is started
Activate ==
  /\ activation = "inactive"
  /\ client' = [state |-> "starting"]
  /\ activation' = "startingClient"
  /\ UNCHANGED <<globalSettings, editorVars, workspaceVars, registrations,
                 sentVia>>

\* client.start() resolves or rejects; startLanguageClient returns a
\* Disposable or, from its catch block, undefined; activate goes on to
\* register the configuration listener and the file watchers and awaits
\* updateModulesContext()
ClientStartSettles(started) ==
  /\ activation = "startingClient"
  /\ client' = [state |-> IF started THEN "running" ELSE "startFailed"]
  /\ activation' = "updatingModules"
  /\ UNCHANGED <<globalSettings, editorVars, workspaceVars, registrations,
                 sentVia>>

\* the rest of activate: the commands are registered, then
\* registerFallbackFeatures runs and 'Extension activated' is logged
RegisterAndFinish ==
  /\ activation = "updatingModules"
  /\ LET r == RegisterCommands(CommandIds \o AddedCommandIds, <<>>)
     IN /\ registrations' = r.calls
        /\ activation' = IF r.threw THEN "rejected" ELSE "activated"
  /\ UNCHANGED <<globalSettings, editorVars, workspaceVars, client, sentVia>>

\* the listeners of activate are registered and not yet disposed
Listening == activation \in {"updatingModules", "activated", "rejected", "deactivating"}

\* client?.sendNotification(method, params)
SendThroughClient(method, params) ==
  /\ Listening
  /\ Len(sentVia) < MaxNotifications
  /\ sentVia' = IF client = NoClient THEN sentVia
                ELSE Append(sentVia, [method |-> method, params |-> params,
                                      clientState |-> client.state])
  /\ UNCHANGED <<globalSettings, editorVars, workspaceVars, activation, client,
                 registrations>>

\* the listener of vscode.workspace.onDidChangeConfiguration
ConfigurationChanged ==
  SendThroughClient("workspace/didChangeConfiguration", "{}")

\* notifyServerFileEvent, called by the file watchers
FileEventKinds == {"created", "changed", "deleted"}
notifyServerFileEvent(kind) == SendThroughClient("roop/moduleFileEvent", kind)

\* deactivate up to 'await client.stop()'
Deactivate ==
  /\ activation \in {"activated", "rejected"}
  /\ IF client # NoClient
     THEN /\ client' = [state |-> "stopping"]
          /\ activation' = "deactivating"
     ELSE /\ client' = client
          /\ activation' = "deactivated"
  /\ UNCHANGED <<globalSettings, editorVars, workspaceVars, registrations,
                 sentVia>>

\* client.stop() has resolved: client = undefined
ClientStopped ==
  /\ activation = "deactivating"
  /\ client' = NoClient
  /\ activation' = "deactivated"
  /\ UNCHANGED <<globalSettings, editorVars, workspaceVars, registrations,
                 sentVia>>

NextActivation ==
  \/ Activate
  \/ \E started \in BOOLEAN : ClientStartSettles(started)
  \/ RegisterAndFinish
  \/ ConfigurationChanged
  \/ \E kind \in FileEventKinds : notifyServerFileEvent(kind)
  \/ Deactivate
  \/ ClientStopped

SpecActivation == InitActivation /\ [][NextActivation]_vars

-----------------------------------------------------------------------------
(* Sessions on one document *)

\* a session with the language server and the editor's formatting requests
Next ==
  \/ \E l \in TypedLines : DidChangeContent(l)
  \/ DocumentSymbol
  \/ FoldingRanges
  \/ DocumentFormatting
  \/ ClientFormatting
  \/ ApplyFormatting

Spec == Init /\ [][Next]_vars

\* a session with the client's fallback features
NextClient ==
  \/ \E l \in ClientTypedLines : DidChangeContent(l)
  \/ ClientFormatting
  \/ ApplyFormatting
  \/ ValidateCurrentDocument

SpecClient == InitClient /\ [][NextClient]_vars

\* a session that builds a document and asks for outline, folds and format
NextOutline ==
  \/ \E l \in OutlineLines : DidChangeContent(l)
  \/ DocumentSymbol
  \/ FoldingRanges
  \/ DocumentFormatting

SpecOutline == InitOutline /\ [][NextOutline]_vars

\* a session in which the user applies quick fixes
NextQuickFix ==
  \/ \E l \in QuickFixLines : DidChangeContent(l)
  \/ CodeAction
  \/ \E k \in 1..MaxLines : ApplyCodeAction(k)

\* a session in which the outline is asked for and tasks are run
NextTasks ==
  \/ \E l \in TaskLines : DidChangeContent(l)
  \/ DocumentSymbol
  \/ \E cursorLine \in 0..(MaxLines - 1) : RunCurrentTask(cursorLine)

SpecTasks == InitTasks /\ [][NextTasks]_vars

\* a session in which the user formats what was typed
NextFormat ==
  \/ \E l \in FormatLines : DidChangeContent(l)
  \/ DocumentFormatting
  \/ ApplyFormatting

SpecFormat == InitFormat /\ [][NextFormat]_vars

NextCompletion ==
  \/ \E l \in 0..(MaxLines - 1), c \in 0..MaxColumn : Completion(l, c)
  \/ \E change \in KeywordChanges : ClientNotifies(change)

SpecCompletion == InitCompletion /\ [][NextCompletion]_vars

SpecQuickFix == InitQuickFix /\ [][NextQuickFix]_vars

\* the extension and the server while the user edits settings
NextSettings ==
  \/ \E c \in UserConfigs : UserChangesSetting(c)
  \/ ReceiveConfiguration

SpecSettings == InitSettings /\ [][NextSettings]_vars

\* the server with a client that sends any configuration payload
NextProtocol ==
  \/ \E change \in Changes : ClientNotifies(change)
  \/ DocumentFormatting
  \/ CodeAction

SpecProtocol == InitProtocol /\ [][NextProtocol]_vars

-----------------------------------------------------------------------------
(* Properties.  The notions the properties are stated in. *)

\* the open 'start task' lines (1-based) after each line, closers popping
\* the innermost one and leaving an empty stack empty
OpenTasks(d) ==
  [i \in 0..Len(d) |->
     LET st[k \in 0..i] ==
           IF k = 0 THEN <<>>
           ELSE IF isStartTask(d[k]) THEN Append(st[k - 1], k)
           ELSE IF isEndTask(d[k]) /\ st[k - 1] # <<>>
           THEN SubSeq(st[k - 1], 1, Len(st[k - 1]) - 1)
           ELSE st[k - 1]
     IN st[i]]

\* the 'end task' lines with no open 'start task' before them
OrphanClosers(d) ==
  {j \in 1..Len(d) : isEndTask(d[j]) /\ OpenTasks(d)[j - 1] = <<>>}

\* as many openers as closers, and no closer before its opener
Balanced(d) == OrphanClosers(d) = {} /\ OpenTasks(d)[Len(d)] = <<>>

\* the 'start task' line an 'end task' line j closes (j is no orphan)
MatchingStart(d, j) == LET open == OpenTasks(d)[j - 1] IN open[Len(open)]

\* a line that begins with a block keyword (language-reference.md, 2.2)
IsBlockHeader(line) ==
  LET t == Trim(line)
  IN /\ t # <<>>
     /\ \/ t[1] \in {"when", "on", "if", "elseif", "else", "repeat", "while",
                     "for", "parallel"}
        \/ TwoWordAt(t, "template", "task") > 0

\* a block header with no ':' at the end of the line nor before a comment
HeaderLacksColon(line) ==
  /\ IsBlockHeader(line)
  /\ ~EndsWithColon(Trim(line))
  /\ ~EndsWithColon(stripLineComment(line))

IsIfHeader(line) ==
  LET t == Trim(line) IN t # <<>> /\ t[1] = "if" /\ EndsWithColon(t)

IsTransitional(line) ==
  LET t == Trim(line) IN t # <<>> /\ t[1] \in {"elseif", "else"} /\ EndsWithColon(t)

\* a line of a branch body that is no branch of an 'if' and no task delimiter
IsBodyLine(line) ==
  ~IsIfHeader(line) /\ ~IsTransitional(line) /\ ~isStartTask(line) /\ ~isEndTask(line)

ServerUnbalanced(d) == UnbalancedTaskPass(d, globalSettings)

ClientBudget == Max(1, config.validation.maxProblems)

ClientUnbalanced(d) ==
  collectTaskBalanceDiagnostics(
    d, clientToSeverity(config.lint.unbalancedTask.severity), ClientBudget)

ServerLevels(d) == FormatPass(d, globalSettings).levels

Abs(n) == IF n < 0 THEN -n ELSE n

\* C1: the unbalanced-task check of the server and of the client emits no
\* diagnostic exactly when the document's tasks are balanced: as many
\* 'start task' as 'end task' lines and no 'end task' before its opener.
C1_BalanceProperty ==
  /\ (ServerUnbalanced(doc) = <<>>) <=> Balanced(doc)
  /\ (ClientUnbalanced(doc) = <<>>) <=> Balanced(doc)

\* C2: formatting the formatter's output again gives the same text.
C2_FormatIdempotent ==
  LET once == onDocumentFormatting(doc, globalSettings)
  IN onDocumentFormatting(once, globalSettings) = once

\* C3: in a document with balanced tasks whose block headers all end with
\* ':', the formatter writes every 'end task' at the level of the
\* 'start task' it closes, and a plain line after it at that level too.
C3_EndTaskAtStartLevel ==
  (/\ Balanced(doc)
   /\ \A i \in 1..Len(doc) : IsBlockHeader(doc[i]) => EndsWithColon(Trim(doc[i])))
  => \A j \in 1..Len(doc) :
       isEndTask(doc[j]) =>
         /\ ServerLevels(doc)[j] = ServerLevels(doc)[MatchingStart(doc, j)]
         /\ (j < Len(doc) /\ IsBodyLine(doc[j + 1]))
              => ServerLevels(doc)[j + 1] = ServerLevels(doc)[MatchingStart(doc, j)]

\* C4: every task symbol of onDocumentSymbol has a folding range of
\* onFoldingRanges with the same start line and the same end line (stated
\* for the symbols that span more than one line: no fold is on one line).
C4_SymbolHasFold ==
  LET symbols == onDocumentSymbol(doc)
      folds == onFoldingRanges(doc)
  IN \A k \in 1..Len(symbols) :
       (symbols[k].kind = "Module" /\ symbols[k].endLine > symbols[k].startLine) =>
         \E f \in 1..Len(folds) :
           /\ folds[f].startLine = symbols[k].startLine
           /\ folds[f].endLine = symbols[k].endLine

\* C5: when one 'end task' line has no open 'start task' before it (and no
\* task is left open), the check emits exactly one diagnostic, on that
\* line, and the client's stack is empty after the line.
C5_OrphanCloserAnchored ==
  \A j \in 1..Len(doc) :
    (OrphanClosers(doc) = {j} /\ OpenTasks(doc)[Len(doc)] = <<>>) =>
      /\ Len(ServerUnbalanced(doc)) = 1
      /\ ServerUnbalanced(doc)[1].range.line = j - 1
      /\ Len(ClientUnbalanced(doc)) = 1
      /\ ClientUnbalanced(doc)[1].range.line = j - 1
      /\ TaskBalanceScan(doc, 1, ClientBudget)[j].stack = <<>>

\* C6: with exactly two 'start task' lines and one 'end task' line (which
\* closes one of them), the check emits exactly one diagnostic, anchored at
\* the second 'start task' line.
C6_SecondOpenerAnchored ==
  LET startLines == {i \in 1..Len(doc) : isStartTask(doc[i])}
      second == CHOOSE i \in startLines : \A k \in startLines : k <= i
  IN (/\ Cardinality(startLines) = 2
      /\ CountLines(doc, isEndTask) = 1
      /\ OrphanClosers(doc) = {})
     => /\ Len(ServerUnbalanced(doc)) = 1
        /\ ServerUnbalanced(doc)[1].range.line = second - 1
        /\ Len(ClientUnbalanced(doc)) = 1
        /\ ClientUnbalanced(doc)[1].range.line = second - 1

\* C7: with balanced tasks and exactly one block header lacking its ':',
\* the server and the client emit exactly one MissingColon diagnostic, whose
\* range is that whole line, and no UnbalancedTask diagnostic; a header line
\* ending with ':' gets no MissingColon diagnostic.
C7_OneMissingColon ==
  LET lacking == {i \in 1..Len(doc) : HeaderLacksColon(doc[i])}
      whole(i) == makeRange(i - 1, 0, TextLength(doc[i]))
      server == MissingColonPass(doc, globalSettings)
      fallback == collectMissingColonDiagnostics(
                    doc, clientToSeverity(config.lint.missingColon.severity),
                    ClientBudget)
  IN /\ \A i \in 1..Len(doc) :
          (Balanced(doc) /\ lacking = {i}) =>
            /\ Len(server) = 1 /\ server[1].range = whole(i)
            /\ Len(fallback) = 1 /\ fallback[1].range = whole(i)
            /\ ServerUnbalanced(doc) = <<>>
            /\ ClientUnbalanced(doc) = <<>>
     /\ \A i \in 1..Len(doc) :
          (IsBlockHeader(doc[i]) /\ EndsWithColon(Trim(doc[i]))) =>
            /\ \A k \in 1..Len(server) : server[k].range.line # i - 1
            /\ \A k \in 1..Len(fallback) : fallback[k].range.line # i - 1

\* the levels are naturals, consecutive levels differ by at most one, and
\* every line is padded with level * size blanks
LevelsMonotonic(levels, lines, size) ==
  /\ \A i \in 1..Len(levels) :
       /\ levels[i] \in Nat
       /\ LeadingSpaces(lines[i]) = levels[i] * size
  /\ \A i \in 1..(Len(levels) - 1) : Abs(levels[i + 1] - levels[i]) <= 1

\* C8: in the server formatter and in the client fallback formatter the
\* level of every line is an integer >= 0 and the levels of two consecutive
\* lines differ by at most 1.
C8_MonotonicNesting ==
  LET s == FormatPass(doc, globalSettings)
      c == ClientFormatPass(doc, config)
  IN /\ Len(s.levels) = Len(doc)
     /\ LevelsMonotonic(s.levels, s.lines, globalSettings.format.indentSize)
     /\ Len(c.levels) = Len(doc)
     /\ LevelsMonotonic(c.levels, c.lines, Max(2, Min(8, config.format.indentSize)))

\* C8 witness: the server formatter has answered for a document in which
\* the level goes up after a header and down again at a branch line
C8_Witness ==
  /\ response.kind = "formatting"
  /\ response.value # <<>>
  /\ \E i, j \in 1..(Len(doc) - 1) :
       /\ ServerLevels(doc)[i + 1] = ServerLevels(doc)[i] + 1
       /\ ServerLevels(doc)[j + 1] = ServerLevels(doc)[j] - 1
       /\ IsTransitional(doc[j + 1])

\* C9: an 'elseif ...:' or 'else:' line after the body of an 'if ...:'
\* line written at level L is written at level L, and the line after it at
\* level L + 1.
C9_BranchAtIfLevel ==
  \A i, j \in 1..Len(doc) :
    (/\ i < j
     /\ IsIfHeader(doc[i])
     /\ IsTransitional(doc[j])
     /\ \A k \in (i + 1)..(j - 1) : IsBodyLine(doc[k]))
    => /\ ServerLevels(doc)[j] = ServerLevels(doc)[i]
       /\ (j < Len(doc) /\ IsBodyLine(doc[j + 1]))
            => ServerLevels(doc)[j + 1] = ServerLevels(doc)[i] + 1

\* C10: the missing-colon check finds nothing in the formatter's output.
C10_FormattedHasColons ==
  /\ MissingColonPass(onDocumentFormatting(doc, globalSettings), globalSettings) = <<>>
  /\ (response.kind = "formatting" /\ response.value # <<>>)
       => MissingColonPass(response.value[1].newText, globalSettings) = <<>>

\* C10 witness: the formatter has answered for a document in which the
\* check reports a missing colon
C10_Witness ==
  /\ response.kind = "formatting"
  /\ response.value # <<>>
  /\ MissingColonPass(doc, globalSettings) # <<>>
  /\ response.value[1].newText # doc

-----------------------------------------------------------------------------
(* Properties of the diagnostics passes under changing settings *)

\* the kind of a diagnostic of the server, told by its message
ServerKind(d) ==
  IF d.message = MissingColonMessage THEN "MissingColon"
  ELSE IF \E a \in 0..(MaxLines + 1), b \in 0..(MaxLines + 1) :
            d.message = UnbalancedMessage(a, b)
  THEN "UnbalancedTask"
  ELSE "UnrecognizedLeadingToken"

\* the kind of a diagnostic of the client
ClientKind(d) ==
  IF d.message = ClientMissingColonMessage THEN "MissingColon"
  ELSE "UnbalancedTask"

ServerOfKind(ds, k) == SelectSeq(ds, LAMBDA d : ServerKind(d) = k)
ClientOfKind(ds, k) == SelectSeq(ds, LAMBDA d : ClientKind(d) = k)

\* the server settings with the two lints at the given levels
ServerSettingsAt(s1, s2) ==
  [defaultSettings EXCEPT !.lint.missingColon.severity = s1,
                          !.lint.unbalancedTask.severity = s2]

\* C11: what a check emits does not depend on whether the other checks are
\* enabled: in the server pass for every pair of lint levels, and in the
\* client pass under the configuration in force, switching the other lint
\* off leaves the diagnostics of a check as they are.
C11_ChecksIndependent ==
  /\ \A s1 \in LintLevels, s2 \in LintLevels :
       LET all == validateTextDocument(doc, ServerSettingsAt(s1, s2))
       IN /\ ServerOfKind(all, "MissingColon") =
               ServerOfKind(validateTextDocument(doc, ServerSettingsAt(s1, "off")),
                            "MissingColon")
          /\ ServerOfKind(all, "UnbalancedTask") =
               ServerOfKind(validateTextDocument(doc, ServerSettingsAt("off", s2)),
                            "UnbalancedTask")
          /\ ServerOfKind(all, "UnrecognizedLeadingToken") =
               ServerOfKind(validateTextDocument(doc, ServerSettingsAt("off", "off")),
                            "UnrecognizedLeadingToken")
  /\ LET all == validateDocument(doc, config)
         missingOff == [config EXCEPT !.lint.missingColon.severity = "off"]
         unbalancedOff == [config EXCEPT !.lint.unbalancedTask.severity = "off"]
     IN /\ ClientOfKind(all, "MissingColon") =
             ClientOfKind(validateDocument(doc, unbalancedOff), "MissingColon")
        /\ ClientOfKind(all, "UnbalancedTask") =
             ClientOfKind(validateDocument(doc, missingOff), "UnbalancedTask")

\* a is the beginning of b
IsPrefix(a, b) == Len(a) <= Len(b) /\ a = SubSeq(b, 1, Len(a))

\* a budget no document of the session can use up: a line gets at most one
\* diagnostic of each check
Unlimited(d) == 2 * Len(d) + 1

ClientMissingUnlimited(d) ==
  collectMissingColonDiagnostics(
    d, clientToSeverity(config.lint.missingColon.severity), Unlimited(d))

ClientUnbalancedUnlimited(d) ==
  collectTaskBalanceDiagnostics(
    d, clientToSeverity(config.lint.unbalancedTask.severity), Unlimited(d))

\* C12: the client pass sets at most B = max(1, maxProblems) diagnostics;
\* each check emits the first diagnostics it would emit without a budget,
\* in the same order, and stops only when its remaining budget is used up.
C12_BudgetRespected ==
  LET all == validateDocument(doc, config)
      missing == ClientOfKind(all, "MissingColon")
      unbalanced == ClientOfKind(all, "UnbalancedTask")
      missingRuns == clientToSeverity(config.lint.missingColon.severity) # 0
      unbalancedRuns ==
        /\ clientToSeverity(config.lint.unbalancedTask.severity) # 0
        /\ Len(missing) < ClientBudget
  IN /\ Len(all) <= ClientBudget
     /\ all = missing \o unbalanced
     /\ IsPrefix(missing, ClientMissingUnlimited(doc))
     /\ IsPrefix(unbalanced, ClientUnbalancedUnlimited(doc))
     /\ missingRuns =>
          Len(missing) = Min(ClientBudget, Len(ClientMissingUnlimited(doc)))
     /\ unbalancedRuns =>
          Len(unbalanced) = Min(ClientBudget - Len(missing),
                                Len(ClientUnbalancedUnlimited(doc)))

\* the validation command has run on the current text, the budget is used
\* up by both checks and the checks had more to report
C12_Witness ==
  /\ diagnostics = validateDocument(doc, config)
  /\ Len(diagnostics) = ClientBudget
  /\ ClientOfKind(diagnostics, "MissingColon") # <<>>
  /\ ClientOfKind(diagnostics, "UnbalancedTask") # <<>>
  /\ Len(ClientUnbalancedUnlimited(doc)) > Len(ClientOfKind(diagnostics, "UnbalancedTask"))

-----------------------------------------------------------------------------
(* Properties of the outline and of the folds *)

\* the 'end task' line (1-based) that closes the task opened at line s
\* (1-based) under LIFO matching, if any; the 0-based line at which the
\* task ends: that line, or the last line of the document
TaskClosers(d, s) ==
  {j \in (s + 1)..Len(d) :
     /\ isEndTask(d[j])
     /\ OpenTasks(d)[j - 1] # <<>>
     /\ MatchingStart(d, j) = s}

TaskEndLine(d, s) ==
  IF TaskClosers(d, s) = {} THEN Len(d) - 1
  ELSE (CHOOSE j \in TaskClosers(d, s) : TRUE) - 1

\* the extents the outline is to show: one per 'start task' line
ExpectedTaskExtents(d) ==
  {[startLine |-> s - 1, endLine |-> TaskEndLine(d, s)] :
     s \in {i \in 1..Len(d) : isStartTask(d[i])}}

\* the task symbols of the outline (templates are of kind Class)
TaskSymbols(d) == SelectSeq(onDocumentSymbol(d), LAMBDA s : s.kind = "Module")

SymbolExtents(syms) ==
  {[startLine |-> syms[k].startLine, endLine |-> syms[k].endLine] :
     k \in 1..Len(syms)}

\* C13: the outline has exactly one task symbol per 'start task' line, from
\* that line to its 'end task' under LIFO matching of all 'start task' and
\* 'end task' lines, or to the last line when the task is not closed.
C13_OutlineComplete ==
  /\ Len(TaskSymbols(doc)) = Cardinality(ExpectedTaskExtents(doc))
  /\ SymbolExtents(TaskSymbols(doc)) = ExpectedTaskExtents(doc)

\* the extents of the folds
FoldExtents(folds) ==
  {[startLine |-> folds[k].startLine, endLine |-> folds[k].endLine] :
     k \in 1..Len(folds)}

\* a line of a block's body: not blank and neither header nor task delimiter
IsPlainBody(line) ==
  /\ Trim(line) # <<>>
  /\ ~IsBlockStarter(Trim(line))
  /\ ~isStartTask(line)
  /\ ~isEndTask(line)

\* a sibling header or closer: 'elseif ...:', 'else:' or 'end task'
EndsBlock(line) == IsBranchRealign(Trim(line)) \/ isEndTask(line)

\* the header at line h (1-based) is followed by body lines only, up to a
\* sibling header or closer at line k, or up to the end for k = Len(d) + 1
BodyUpTo(d, h, k) ==
  /\ k > h + 1
  /\ \A i \in (h + 1)..(k - 1) : IsPlainBody(d[i])
  /\ k <= Len(d) => EndsBlock(d[k])

\* C14: every task closed by an 'end task' on a later line has a fold from
\* its 'start task' line to that line, nested tasks included; every block
\* header followed by body lines has a fold from the header to the last
\* body line, the line before the next sibling header or closer.
C14_FoldingComplete ==
  LET folds == FoldExtents(onFoldingRanges(doc))
  IN /\ \A s \in 1..Len(doc) :
          (isStartTask(doc[s]) /\ TaskClosers(doc, s) # {})
            => [startLine |-> s - 1, endLine |-> TaskEndLine(doc, s)] \in folds
     /\ \A h \in 1..Len(doc), k \in 1..(Len(doc) + 1) :
          (IsBlockStarter(Trim(doc[h])) /\ BodyUpTo(doc, h, k))
            => [startLine |-> h - 1, endLine |-> k - 2] \in folds

-----------------------------------------------------------------------------
(* Blank and comment-only lines *)

\* a whitespace-only or comment-only line
IsTransparent(line) == Trim(line) = <<>> \/ Trim(line)[1] = "//"

\* s without its p-th element
RemoveAt(s, p) == SubSeq(s, 1, p - 1) \o SubSeq(s, p + 1, Len(s))

\* the extent {startLine, endLine} (0-based) once line p (1-based) is
\* removed: lines after p move up, an extent that ended at p ends before it
ShiftExtent(e, p) ==
  [startLine |-> IF e.startLine >= p THEN e.startLine - 1 ELSE e.startLine,
   endLine |-> IF e.endLine >= p - 1 THEN e.endLine - 1 ELSE e.endLine]

ShiftedFolds(d, p) ==
  {e \in {ShiftExtent(f, p) : f \in FoldExtents(onFoldingRanges(d))} :
     e.endLine > e.startLine}

ShiftedSymbols(d, p) ==
  {ShiftExtent(s, p) : s \in SymbolExtents(onDocumentSymbol(d))}

\* C15: removing a whitespace-only or comment-only line changes no other
\* line's formatter level, no fold or symbol extent but for the shift of
\* line numbers, and no count of diagnostics of the server or of the
\* client's balance check.
C15_BlankCommentTransparent ==
  \A p \in 1..Len(doc) :
    (Len(doc) >= 2 /\ IsTransparent(doc[p])) =>
      LET r == RemoveAt(doc, p)
      IN /\ ServerLevels(r) = RemoveAt(ServerLevels(doc), p)
         /\ FoldExtents(onFoldingRanges(r)) = ShiftedFolds(doc, p)
         /\ SymbolExtents(onDocumentSymbol(r)) = ShiftedSymbols(doc, p)
         /\ Len(validateTextDocument(r, globalSettings)) =
              Len(validateTextDocument(doc, globalSettings))
         /\ Len(ClientUnbalanced(r)) = Len(ClientUnbalanced(doc))

-----------------------------------------------------------------------------
(* Settings *)

\* the five settings of the server as the user configured them
ConfiguredSettings(c) ==
  [format |-> [enabled |-> c.format.enabled, indentSize |-> c.format.indentSize],
   lint |-> [missingColon |-> [severity |-> c.lint.missingColon.severity],
             unbalancedTask |-> [severity |-> c.lint.unbalancedTask.severity]],
   completion |-> [extraKeywords |-> c.completion.extraKeywords]]

\* C16: once the server has started and every configuration notification
\* has been handled, the server's settings are the user's configured values.
C16_SettingsPropagated ==
  notifications = <<>> => globalSettings = ConfiguredSettings(config)

\* DiagnosticSeverity of vscode-languageserver and of the vscode API
LspSeverity == [hint |-> 4, warning |-> 2, error |-> 1]
VscodeSeverity == [hint |-> 3, warning |-> 1, error |-> 0]

AllSeverity(ds, sev) == \A k \in 1..Len(ds) : ds[k].severity = sev

\* C17: a lint runs exactly when its level is not "off", and its
\* diagnostics carry the severity of the level: in the server pass for every
\* pair of levels, and in the client pass under the configuration in force
\* (the balance check taken with the whole budget, the other lint off).
C17_SeverityMapping ==
  /\ \A s1 \in LintLevels, s2 \in LintLevels :
       LET all == validateTextDocument(doc, ServerSettingsAt(s1, s2))
           missing == ServerOfKind(all, "MissingColon")
           unbalanced == ServerOfKind(all, "UnbalancedTask")
       IN /\ (missing # <<>>) <=>
               (s1 # "off" /\ \E i \in 1..Len(doc) : MissingColonFires(doc[i]))
          /\ s1 # "off" => AllSeverity(missing, LspSeverity[s1])
          /\ (unbalanced # <<>>) <=>
               (s2 # "off" /\ CountLines(doc, isStartTask) # CountLines(doc, isEndTask))
          /\ s2 # "off" => AllSeverity(unbalanced, LspSeverity[s2])
  /\ LET s1 == config.lint.missingColon.severity
         s2 == config.lint.unbalancedTask.severity
         missing == ClientOfKind(validateDocument(doc, config), "MissingColon")
         unbalanced ==
           validateDocument(doc, [config EXCEPT !.lint.missingColon.severity = "off"])
     IN /\ (missing # <<>>) <=>
             (s1 # "off" /\ \E i \in 1..Len(doc) : ClientMissingColonFires(doc[i]))
        /\ s1 # "off" => AllSeverity(missing, VscodeSeverity[s1])
        /\ (unbalanced # <<>>) <=> (s2 # "off" /\ ~Balanced(doc))
        /\ s2 # "off" => AllSeverity(unbalanced, VscodeSeverity[s2])

\* C18: whatever configuration payloads the server has received, its
\* indentSize is an integer in 2..8, both lint severities are one of the
\* four levels and extraKeywords is a list of keywords; a payload whose
\* indentSize is absent or no number installs 2, and one whose severity is
\* absent or no level installs the lint's default.
C18_SettingsValid ==
  /\ globalSettings.format.indentSize \in 2..8
  /\ globalSettings.lint.missingColon.severity \in LintLevels
  /\ globalSettings.lint.unbalancedTask.severity \in LintLevels
  /\ globalSettings.completion.extraKeywords \in SUBSET {"foo"}
  /\ \A change \in Changes :
       LET cfg == RoopSection(change)
           s == onDidChangeConfiguration(change)
           invalid(v) == v.type # "string" \/ v.str \notin LintLevels
       IN /\ cfg.indentSize.type # "number" => s.format.indentSize = 2
          /\ invalid(cfg.missingColon) => s.lint.missingColon.severity = "hint"
          /\ invalid(cfg.unbalancedTask) =>
               s.lint.unbalancedTask.severity = "warning"

\* the server has handled a payload with an indentSize above the range and
\* without a valid missingColon level, and has validated the document again
C18_Witness ==
  /\ globalSettings.format.indentSize = 8
  /\ globalSettings.lint.unbalancedTask.severity = "error"
  /\ globalSettings.completion.extraKeywords = {"foo"}
  /\ published = validateTextDocument(doc, globalSettings)
  /\ doc = <<FooLine>>

-----------------------------------------------------------------------------
(* Diagnostic codes *)

\* the diagnostics with their message text replaced
Reworded(ds) == [k \in 1..Len(ds) |-> [ds[k] EXCEPT !.message = "reworded"]]

\* C19: every published diagnostic carries a code, diagnostics of one kind
\* carry one code, and the add-colon quick fix is offered for the
\* missing-colon diagnostics whatever their message text.
C19_StableCodes ==
  /\ \A k \in 1..Len(published) : "code" \in DOMAIN published[k]
  /\ \A j \in 1..Len(published), k \in 1..Len(published) :
       ("code" \in DOMAIN published[j] /\ "code" \in DOMAIN published[k]
        /\ ServerKind(published[j]) = ServerKind(published[k]))
         => published[j].code = published[k].code
  /\ Len(onCodeAction(doc, Reworded(published))) =
       Len(ServerOfKind(published, "MissingColon"))

-----------------------------------------------------------------------------
(* 'end task' and the frames of other headers *)

\* the formatter's level before line j (1-based) of d
LevelBefore(d, j) == FormatPass(SubSeq(d, 1, j - 1), globalSettings).level

\* C20: an 'end task' closes only what a 'start task' opened: with no task
\* open the formatter writes it at the level reached before it, and no frame
\* of a 'template task' is closed by it, so that a template's symbol runs to
\* the last line of the document.
C20_EndTaskClosesTasksOnly ==
  /\ \A j \in 1..Len(doc) :
       (isEndTask(doc[j]) /\ OpenTasks(doc)[j - 1] = <<>>)
         => ServerLevels(doc)[j] = LevelBefore(doc, j)
  /\ \A k \in 1..Len(onDocumentSymbol(doc)) :
       onDocumentSymbol(doc)[k].kind = "Class"
         => onDocumentSymbol(doc)[k].endLine = Len(doc) - 1

-----------------------------------------------------------------------------
(* Quick fix *)

CatalogLabels(settings) ==
  {PhraseText(v) : v \in ActionVerbs} \cup STRUCTURAL \cup DIRECTIVES
    \cup OPERATORS \cup settings.completion.extraKeywords

\* C22: a completion request answers with every action verb, structural
\* keyword, directive, operator and configured extra keyword whatever the text
\* before the cursor is; the prefix rules only add items to that catalog; and
\* the request leaves the published diagnostics as validation made them
C22_CompletionFallback ==
  [][(response' # response /\ response'.kind = "completion") =>
       /\ CatalogLabels(globalSettings) \subseteq {i.label : i \in response'.value}
       /\ CatalogItems(globalSettings) \subseteq response'.value
       /\ response'.value \ CatalogItems(globalSettings) =
            ContextItems(Flatten(LexemesBefore(doc[response'.position.line + 1],
                                               response'.position.character)))
       /\ published' = published
       /\ published' = validateTextDocument(doc', globalSettings')]_vars

\* completions asked after "on " with an extra keyword configured: the event
\* branches are offered next to the catalog
C22_Witness ==
  /\ response.kind = "completion"
  /\ doc = <<OnLine>>
  /\ response.position.character = 3
  /\ globalSettings.completion.extraKeywords = {"foo"}
  /\ \E i \in response.value : i.label = "on failure:"
  /\ \E i \in response.value : i.label = "foo"

\* the unknown-verb diagnostics among ds that lie on line i (0-based)
UnknownVerbOn(ds, i) ==
  {k \in 1..Len(ds) :
     /\ ds[k].range.line = i
     /\ \E v \in ActionVerbs :
          ds[k].message \in {UnknownVerbMessage(PhraseText(v)),
                             UnknownVerbMessage(v[1])}}

\* C27: under the default settings, a line made of an action verb of the
\* catalog followed by an argument gets no 'Unrecognized leading verb'
\* diagnostic: its leading verb is a known starter
C27_CatalogConsistent ==
  globalSettings = defaultSettings =>
    \A i \in 1..Len(doc) :
      doc[i] \in {VerbLine(v) : v \in ActionVerbs} =>
        /\ UnknownVerbOn(published, i - 1) = {}
        /\ firstVerb(doc[i]) \in SINGLE_WORD_STARTERS \cup ALL_MULTIWORD_STARTERS

-----------------------------------------------------------------------------
(* Properties of the formatter's text *)

\* the text of a formatting response, or the document when formatting is off
FormattedText(r, text) == IF r.value = <<>> THEN text ELSE r.value[1].newText

EndsInWhitespace(line) == line # <<>> /\ IsSpace(line[Len(line)])

\* C25: no line of the formatter's output ends in whitespace; a blank input
\* line inside a block is written as the empty line
C25_NoTrailingWhitespace ==
  (response.kind = "formatting" /\ response.value # <<>>) =>
    \A i \in 1..Len(response.value[1].newText) :
      /\ ~EndsInWhitespace(response.value[1].newText[i])
      /\ Trim(doc[i]) = <<>> => response.value[1].newText[i] = <<>>

-----------------------------------------------------------------------------
(* Properties of the task ranges of server and client *)

\* two line ranges are disjoint or one contains the other
Disjoint(a, b) == a.endLine < b.startLine \/ b.endLine < a.startLine
Contains(a, b) == a.startLine <= b.startLine /\ b.endLine <= a.endLine
ProperlyNested(ranges) ==
  \A j, k \in 1..Len(ranges) :
    j # k => \/ Disjoint(ranges[j], ranges[k])
             \/ Contains(ranges[j], ranges[k])
             \/ Contains(ranges[k], ranges[j])

Triples(items) ==
  {<<items[k].name, items[k].startLine, items[k].endLine>> : k \in 1..Len(items)}

\* C30: in a document without template tasks and comments, the tasks the
\* client finds for Run Current Task are the task symbols of the outline:
\* same names, same start lines, same end lines
C30_ClientServerAgree ==
  Triples(parseTasks(doc)) = Triples(TaskSymbols(doc))

-----------------------------------------------------------------------------
(* Properties of the document store *)

\* the calls made by the last handler go to open documents, at most one per
\* uri, each with the diagnostics of that uri's text under the settings
CallsFresh ==
  /\ \A k \in 1..Len(sent) :
       /\ documents[sent[k].uri] # NotOpen
       /\ sent[k].diagnostics =
            validateTextDocument(documents[sent[k].uri], globalSettings)
  /\ \A j, k \in 1..Len(sent) : sent[j].uri = sent[k].uri => j = k

\* what is shown for an open document is computed from its text as it is
\* now, under the settings as they are now
NothingStale ==
  \A u \in Uris :
    documents[u] # NotOpen =>
      latest[u] = <<validateTextDocument(documents[u], globalSettings)>>

\* an event on one document makes one call, for that document; a change of
\* the settings makes one call for every open document
OneCallPerEvent ==
  /\ \A u \in Uris :
       (documents'[u] # documents[u] /\ documents'[u] # NotOpen) =>
         /\ Len(sent') = 1
         /\ sent'[1].uri = u
  /\ globalSettings' # globalSettings =>
       {sent'[k].uri : k \in 1..Len(sent')} = {u \in Uris : documents[u] # NotOpen}

-----------------------------------------------------------------------------
(* Properties of the extension's life cycle *)

\* how often an identifier was passed to registerCommand
TimesRegistered(id) ==
  Cardinality({k \in 1..Len(registrations) : registrations[k] = id})

\* C28: activate registers every command identifier exactly once, never one
\* that is registered already, and runs through to 'Extension activated'
C28_RegisteredOnce ==
  /\ \A k \in 1..Len(CommandIds) : TimesRegistered(CommandIds[k]) <= 1
  /\ activation # "rejected"
  /\ activation \in {"activated", "deactivating", "deactivated"} =>
       \A k \in 1..Len(CommandIds) : TimesRegistered(CommandIds[k]) = 1

\* C29: a notification goes through client only while the client is running;
\* after a failed start and after deactivate the variable client is undefined
C29_ClientLifecycle ==
  /\ \A k \in 1..Len(sentVia) : sentVia[k].clientState = "running"
  /\ client.state # "startFailed"
  /\ activation = "deactivated" => client = NoClient

====
